---- MODULE Spec2Model ----
(***************************************************************************)
(* State-machine model of CANInterface (src/can_interface.py): the bus     *)
(* transport, its receive worker, the fault monitor (_handle_bus_error)    *)
(* and the reset sequence (_auto_reset_bus), run by two threads: one       *)
(* caller thread that invokes the public operations and the receive        *)
(* worker thread started by start_receive_thread.                          *)
(***************************************************************************)
EXTENDS Naturals, Integers, Sequences, FiniteSets, TLC

\* ------------------------------------------------------------- bounds
\* The backend may open at most MaxOpens handles in one run.
MaxOpens == 3
\* Data frames the backend delivers in one run.
MaxFrames == 3
\* Fault events (error frames, bus-fault exceptions) in one run.
MaxFaults == 11
\* Capacity of the receive queue (1000 in the source, scaled down).
QueueMaxsize == 2
\* Oldest entries removed on overflow (100 in the source, scaled down).
EvictBatch == 1
\* The clock starts at StartTime, advances by TickStep, up to MaxTime.
StartTime == 90
TickStep == 30
MaxTime == 180
\* Largest max_count a caller passes to get_received_messages.
MaxGet == 2
\* Operations the caller thread invokes in one run.
MaxCalls == 3
\* Longest byte string handed to parse_response_message (a CAN payload has 8 bytes).
MaxPayloadLen == 8

\* ------------------------------------------------- program constants
\* self.max_errors_per_minute
max_errors_per_minute == 10
\* the window of _handle_bus_error: current_time - last_error_time > 60
ErrorWindow == 60

Threads == {"caller", "worker"}
Observers == {1, 2}
NoBus == 0

VARIABLES
    pc,                 \* position of each thread; the worker is "dead" when not alive
    inReset,            \* thread is inside _auto_reset_bus
    bus,                \* self.bus: NoBus (None) or a handle id
    is_connected,       \* self.is_connected
    stop_receive,       \* self.stop_receive (threading.Event)
    received_messages,  \* self.received_messages (Queue)
    error_callbacks,    \* self.error_callbacks
    bus_error_count,    \* self.bus_error_count
    last_error_time,    \* self.last_error_time
    auto_reset_enabled, \* self.auto_reset_enabled
    w_msg,              \* worker local: can_msg (0 when none)
    w_removed,          \* worker local: messages_removed
    c_left,             \* caller local: max_count - count in get_received_messages
    clock,              \* time.time()
    openHandles,        \* backend: handles opened and not yet shut down
    opened,             \* backend: number of handles opened so far
    frames,             \* backend: data frames delivered so far
    faultEvents,        \* calls of _handle_bus_error so far
    calls,              \* operations the caller thread has invoked so far
    autoResets,         \* reset sequences started by the threshold check
    scenarioClean,      \* no manual reset, no failed reconnect, auto-reset never disabled
    r_count0,           \* per thread: bus_error_count when its reset sequence started
    lastNotify,         \* last batch of observer invocations: kind and invoked observers
    lock,               \* self.lock (threading.Lock): "free" or the thread holding it
    message_callbacks,  \* self.message_callbacks
    delivered,          \* per observer: the data frames passed to it so far, in order
    drained,            \* a consumer (get, clear, reset) has removed a queue entry
    liveWorkers,        \* receive threads started and not yet finished
    shutdowns,          \* backend: calls of bus.shutdown() so far
    lastSend,           \* the current or last send_message call: result, backend sends
    r_stages,           \* per thread: who called its current or last reset, then the steps executed
    faultLog,           \* clock readings of the faults counted since the count was last zeroed by a reset
    codec,              \* the last ServoProtocol call: function, arguments, result
    lastRaised,         \* str(e).lower() of the last exception the receive poll raised, as words
    lastFault,          \* last fault: the count after its increment, the count its event carried
    messages,           \* caller local: messages of get_received_messages
    max_count,          \* caller local: max_count of get_received_messages
    lastReg,            \* last registry call: operation, observer, the registry before it
    r_frames0           \* frames the backend had delivered when the caller's reset finished its drain

vars == << pc, inReset, bus, is_connected, stop_receive, received_messages,
           error_callbacks, bus_error_count, last_error_time, auto_reset_enabled,
           w_msg, w_removed, c_left, clock, openHandles, opened, frames,
           faultEvents, calls, autoResets, scenarioClean, r_count0, lastNotify,
           lock, message_callbacks, delivered, drained, liveWorkers, shutdowns,
           lastSend, r_stages, faultLog, codec, lastRaised, lastFault, messages,
           max_count, lastReg, r_frames0 >>

\* ------------------------------------------------------------ helpers
Range(s) == { s[i] : i \in 1..Len(s) }

WorkerAlive == pc["worker"] # "dead"

\* QueueFull with the bound off by one: one item too many is accepted.
QueueFull_OffByOne(q) == Len(q) > QueueMaxsize

\* Queue.put_nowait raises Full when the queue holds maxsize items.
QueueFull(q) == Len(q) >= QueueMaxsize

\* while not self.stop_receive.is_set() and self.is_connected / if not self.bus: break
LoopContinues == ~stop_receive /\ is_connected /\ bus # NoBus

\* WindowElapsed with the boundary included: a fault exactly 60 after the last resets.
WindowElapsed_Inclusive(now, last) == now - last >= ErrorWindow

\* if current_time - self.last_error_time > 60
WindowElapsed(now, last) == now - last > ErrorWindow

\* ThresholdReached without the auto_reset_enabled conjunct.
ThresholdReached_IgnoresFlag(count, enabled) == count >= max_errors_per_minute

\* if self.bus_error_count >= self.max_errors_per_minute and self.auto_reset_enabled
ThresholdReached(count, enabled) == count >= max_errors_per_minute /\ enabled

\* CountAfterReconnect with the reset of the count left out.
CountAfterReconnect_NeverZeroed(ok, count) == count

\* CountAfterReconnect with the count zeroed on both branches.
CountAfterReconnect_AlwaysZeroed(ok, count) == 0

\* if self.connect(): self.bus_error_count = 0 ... else: (count untouched)
CountAfterReconnect(ok, count) == IF ok THEN 0 ELSE count

\* Invoked without the try/except around the call: the first raising observer
\* ends the loop.
Invoked_StopsAtRaise(callbacks, raising) ==
    LET hit == { i \in 1..Len(callbacks) : callbacks[i] \in raising }
    IN  IF hit = {} THEN callbacks
        ELSE SubSeq(callbacks, 1, CHOOSE i \in hit : \A j \in hit : i <= j)

\* Invoked with the list walked from its end.
Invoked_Reversed(callbacks, raising) ==
    [i \in 1..Len(callbacks) |-> callbacks[Len(callbacks) + 1 - i]]

\* for callback in callbacks: try: callback(...) except: log
\* raising is the set of observers whose call raises; every callback is invoked.
Invoked(callbacks, raising) == callbacks

\* ConnectedAfterOpen with the except branch not clearing the flag.
ConnectedAfterOpen_KeptOnFailure(ok, was) == ok \/ was

\* connect: self.is_connected = True after the open, = False in the except branch
ConnectedAfterOpen(ok, was) == ok

\* receive_thread.join() called by the receive thread itself raises RuntimeError
JoinRaises(t) == t = "worker"

\* WorkerSlow for a join that does not wait at all.
WorkerSlow_NoGrace == TRUE

\* receive_thread.join(timeout=2.0) can expire only while the worker is somewhere it
\* can stay longer than the grace period: inside observer callbacks, waiting for
\* the registry lock, or inside a reset (time.sleep(1), then the backend open).
\* A poll returns within its 0.1 s timeout.
WorkerSlow ==
    \/ pc["worker"] = "notify" /\ message_callbacks # << >>
    \/ pc["worker"] \in {"h_notify", "r_notify"} /\ error_callbacks # << >>
    \/ pc["worker"] \in {"cb_reenter", "r_sleep", "c_open"}

\* StartsWorker without the is_alive() check.
StartsWorker_Always(alive) == TRUE

\* start_receive_thread: if self.receive_thread and self.receive_thread.is_alive(): return
StartsWorker(alive) == ~alive

\* the frame recv returned has is_error_frame set (a marker, not a frame id)
ErrorFrameMsg == -1

\* AfterRecv with the error-frame check left out: the frame goes on as data.
AfterRecv_ErrorFrameAsData(outcome) ==
    CASE outcome = "none" -> "loop"
      [] outcome \in {"data", "error_frame"} -> "put"
      [] OTHER -> outcome

\* where the receive loop goes with what recv produced: None -> continue; an error
\* frame -> _handle_bus_error; a data frame -> enqueue; an exception -> except clause
AfterRecv(outcome) ==
    CASE outcome = "none" -> "loop"
      [] outcome = "data" -> "put"
      [] outcome = "error_frame" -> "h_count"
      [] OTHER -> outcome

\* the words of a (lower-cased) exception text that the poll of the PCAN backend
\* raises for the bus states, one text that names no bus state, and the text of
\* the AttributeError raised by recv on a bus that is None
TextHeavy == << "bus", "error", "heavy", "limit" >>
TextWarning == << "bus", "error", "warning", "limit" >>
TextBusOff == << "bus", "error", "bus-off", "state" >>
TextOverflow == << "error", "counter", "overflow" >>
TextOther == << "counter", "read", "error" >>
TextNoBus == << "nonetype", "has", "no", "attribute", "recv" >>
ExceptionTexts ==
    {TextHeavy, TextWarning, TextBusOff, TextOverflow, TextOther, TextNoBus}

\* ['heavy', 'warning', 'bus error', 'error counter']
Keywords == { << "heavy" >>, << "warning" >>, << "bus", "error" >>,
              << "error", "counter" >> }

\* keyword in error_msg: the keyword occurs in the text as a run of words
Contains(text, keyword) ==
    \E i \in 1..(Len(text) - Len(keyword) + 1) :
        SubSeq(text, i, i + Len(keyword) - 1) = keyword

\* if any(keyword in error_msg for keyword in [...]): _handle_bus_error(...)
\* else: log
Classified(text) ==
    IF \E keyword \in Keywords : Contains(text, keyword)
    THEN "exc_bus" ELSE "exc_other"

\* Dequeued taking the newest entry.
Dequeued_Lifo(q) == [item |-> q[Len(q)], rest |-> SubSeq(q, 1, Len(q) - 1)]

\* msg = self.received_messages.get_nowait() on a non-empty queue.Queue: the oldest
\* entry is returned and removed
Dequeued(q) == [item |-> Head(q), rest |-> Tail(q)]

\* AfterRetry as if the overflow branch ended the iteration with `continue`.
AfterRetry_SkipsNotify == "loop"

\* after the second put_nowait (stored or not) control reaches `with self.lock:`
AfterRetry == "notify"

\* Evicted taking the newest entry instead of the oldest.
Evicted_Newest(q) == SubSeq(q, 1, Len(q) - 1)

\* self.received_messages.get_nowait() in the overflow branch: the oldest entry goes
Evicted(q) == Tail(q)

\* NotifiedMessage reading the head of the queue instead of the frame just received.
NotifiedMessage_QueueHead(q, msg) == IF q = << >> THEN msg ELSE Head(q)

\* callback(can_msg): the observers get the frame just received
NotifiedMessage(q, msg) == msg

\* the delivery logs after callback(msg) was called on each observer of invoked
DeliveredAfter(invoked, msg) ==
    [o \in Observers |-> IF o \in Range(invoked) THEN Append(delivered[o], msg)
                                                ELSE delivered[o]]

\* lastSend before send_message was ever called. ret: "none", "pending" while the
\* call runs, then "True" or "False" as returned, or "raised"; sends: calls of
\* bus.send() this call made; raised: one of them raised; refused: the guard returned
NoSend == [ret |-> "none", sends |-> 0, raised |-> FALSE, refused |-> FALSE]

\* send_message: if not self.is_connected or not self.bus: return False
SendRefused(connected, b) == ~connected \/ b = NoBus

\* SendAgain with one more attempt after a failed bus.send().
SendAgain_RetryOnce(failed, sends) == failed /\ sends < 2

\* send_message: except Exception: log; return False (bus.send() is not tried again)
SendAgain(failed, sends) == FALSE

\* send_message: return True after bus.send(); return False in the except clause
SendReturn(ok) == IF ok THEN "True" ELSE "False"

\* ------------------------------------------------------ protocol codec
\* MessageType: the tag byte of each frame kind
WRITE_SINGLE == 119
WRITE_DUAL == 87
READ_SINGLE == 114
READ_DUAL == 82
RESPONSE_SINGLE == 118
RESPONSE_DUAL == 86

\* the SAVE_RESET register and the value written to it
SaveResetAddress == 112
SaveResetValue == 65535

\* legacy format: header byte, REG length of a write and of a read
OldHeader == 150
OldWriteLength == 2
OldReadLength == 0

\* value & 0xFF
LowByte(value) == value % 256

\* HighByte without the shift: the low byte twice.
HighByte_NoShift(value) == value % 256

\* (value >> 8) & 0xFF
HighByte(value) == (value \div 256) % 256

\* struct.pack('<B...B', *items) with `fields` B's in the format: struct.error when
\* the number of items differs from the format or an item is outside 0..255
StructPack(fields, items) ==
    IF Len(items) # fields \/ \E i \in 1..Len(items) : items[i] \notin 0..255
    THEN [raised |-> TRUE, payload |-> << >>]
    ELSE [raised |-> FALSE, payload |-> items]

\* create_write_message with the value packed high byte first.
create_write_message_BigEndian(servo_id, address, value) ==
    StructPack(5, << WRITE_SINGLE, servo_id, address, HighByte(value), LowByte(value) >>)

\* struct.pack('<BBBBB', WRITE_SINGLE, servo_id, address, value & 0xFF, (value >> 8) & 0xFF)
create_write_message(servo_id, address, value) ==
    StructPack(5, << WRITE_SINGLE, servo_id, address, LowByte(value), HighByte(value) >>)

\* struct.pack('<BBBBBBB', ...) with seven B's in the format and eight items
create_write_dual_message(servo_id, address_a, value_a, address_b, value_b) ==
    StructPack(7, << WRITE_DUAL, servo_id, address_a, LowByte(value_a), HighByte(value_a),
                     address_b, LowByte(value_b), HighByte(value_b) >>)

\* struct.pack('<BBB', READ_SINGLE, servo_id, address)
create_read_message(servo_id, address) ==
    StructPack(3, << READ_SINGLE, servo_id, address >>)

\* struct.pack('<BBBB', READ_DUAL, servo_id, address_a, address_b)
create_read_dual_message(servo_id, address_a, address_b) ==
    StructPack(4, << READ_DUAL, servo_id, address_a, address_b >>)

\* create_save_reset_message writing 0xFF instead of 0xFFFF.
create_save_reset_message_OneByte(servo_id) ==
    create_write_message(servo_id, SaveResetAddress, LowByte(SaveResetValue))

\* return self.create_write_message(servo_id, 0x70, 0xFFFF, is_extended)
create_save_reset_message(servo_id) ==
    create_write_message(servo_id, SaveResetAddress, SaveResetValue)

\* Checksum without the & 0xFF.
Checksum_Unmasked(total) == total

\* checksum = (...) & 0xFF
Checksum(total) == total % 256

\* checksum = (servo_id + address + 0x02 + data_low + data_high) & 0xFF;
\* struct.pack('<BBBBBBB', 0x96, servo_id, address, 0x02, data_low, data_high, checksum)
create_old_format_write(servo_id, address, value) ==
    LET data_low == LowByte(value)
        data_high == HighByte(value)
        checksum == Checksum(servo_id + address + OldWriteLength + data_low + data_high)
    IN  StructPack(7, << OldHeader, servo_id, address, OldWriteLength,
                         data_low, data_high, checksum >>)

\* checksum = (servo_id + address + 0x00) & 0xFF;
\* struct.pack('<BBBBB', 0x96, servo_id, address, 0x00, checksum)
create_old_format_read(servo_id, address) ==
    LET checksum == Checksum(servo_id + address + OldReadLength)
    IN  StructPack(5, << OldHeader, servo_id, address, OldReadLength, checksum >>)

\* what parse_response_message returns: None, or a dict whose absent keys are -1 here;
\* type "raised" stands for an exception leaving the function
None ==
    [type |-> "None", servo_id |-> -1, address |-> -1, value |-> -1,
     address_a |-> -1, value_a |-> -1, address_b |-> -1, value_b |-> -1]

Raised == [None EXCEPT !.type = "raised"]

\* data[lo:hi] of a bytes object (0-based, hi exclusive, cut at the end)
Slice(data, lo, hi) ==
    SubSeq(data, lo + 1, IF hi < Len(data) THEN hi ELSE Len(data))

\* UnpackH reading the high byte first.
UnpackH_BigEndian(b) == 256 * b[1] + b[2]

\* struct.unpack('<H', b)[0] for a two-byte b
UnpackH(b) == b[1] + 256 * b[2]

\* TagIs matching the letter without its case ('v' and 'V' differ by 32).
TagIs_CaseInsensitive(tag, kind) == tag \in {kind, kind + 32, kind - 32}

\* msg_type == MessageType.X.value
TagIs(tag, kind) == tag = kind

\* the try block of parse_response_message; indexing past the end and unpacking
\* anything but two bytes raise
ParseTry(data) ==
    IF Len(data) < 3 THEN None
    ELSE IF TagIs(data[1], RESPONSE_SINGLE)
    THEN IF Len(data) < 5 THEN None
         ELSE IF Len(Slice(data, 3, 5)) # 2 THEN Raised
         ELSE [None EXCEPT !.type = "single_response",
                           !.servo_id = data[2],
                           !.address = data[3],
                           !.value = UnpackH(Slice(data, 3, 5))]
    ELSE IF TagIs(data[1], RESPONSE_DUAL)
    THEN IF Len(data) < 8 THEN None
         ELSE IF Len(Slice(data, 3, 5)) # 2 \/ Len(Slice(data, 6, 8)) # 2 THEN Raised
         ELSE [None EXCEPT !.type = "dual_response",
                           !.servo_id = data[2],
                           !.address_a = data[3],
                           !.value_a = UnpackH(Slice(data, 3, 5)),
                           !.address_b = data[6],
                           !.value_b = UnpackH(Slice(data, 6, 8))]
    ELSE None

\* parse_response_message: try: ... except Exception: return None
parse_response_message(data) ==
    IF ParseTry(data).type = "raised" THEN None ELSE ParseTry(data)

\* codec before any ServoProtocol call. fn: the function called; args: its arguments;
\* raised, payload: what an encoder produced; parsed: parse_response_message was
\* applied (to args, or to the encoder's payload, retagged: with its tag byte
\* replaced by RESPONSE_SINGLE); resp: what it returned
NoCall ==
    [fn |-> "none", args |-> << >>, raised |-> FALSE, payload |-> << >>,
     parsed |-> FALSE, retagged |-> FALSE, resp |-> None]

\* codec after the encoder fn was called with args and produced packed
Encoded(fn, args, packed) ==
    [NoCall EXCEPT !.fn = fn, !.args = args,
                   !.raised = packed.raised, !.payload = packed.payload]

\* the argument samples of the codec specification
DeviceIds == {0, 1, 48, 255}
Addresses == {0, 6, 50, 255}
Values == {0, 30, 255, 256, 1500, 65535}
TagBytes == {WRITE_SINGLE, RESPONSE_SINGLE, RESPONSE_DUAL, OldHeader}
DataBytes == {5, 48, 50, 220}

\* the sampled byte strings of length n: a tag byte, then data bytes
ByteStrings(n) ==
    IF n = 0 THEN {<< >>}
    ELSE { << tag >> \o body : tag \in TagBytes, body \in [1..(n - 1) -> DataBytes] }

\* ManualResetProceeds with the automatic path's threshold test applied.
ManualResetProceeds_ChecksThreshold(count, enabled) ==
    count >= max_errors_per_minute /\ enabled

\* manual_reset_bus: self._auto_reset_bus() is called unconditionally
ManualResetProceeds(count, enabled) == TRUE

\* r_stages after thread t, inside _auto_reset_bus, executed stage
StagesAfter(t, stage) ==
    [r_stages EXCEPT ![t] = IF inReset[t] THEN Append(@, stage) ELSE @]

\* lastFault before any fault
NoFault == [count |-> 0, seq |-> 0]

\* lastReg before any registry call
NoReg ==
    [n |-> 0, op |-> "none", registry |-> "none", callback |-> 0, before |-> << >>]

\* lastReg after the call op(callback) on a registry whose list was before
RegCall(op, registry, callback, before) ==
    [n |-> lastReg.n + 1, op |-> op, registry |-> registry, callback |-> callback,
     before |-> before]

\* AddCallback without the membership test.
AddCallback_AlwaysAppends(callbacks, callback) == Append(callbacks, callback)

\* if callback not in callbacks: callbacks.append(callback)
AddCallback(callbacks, callback) ==
    IF callback \in Range(callbacks) THEN callbacks ELSE Append(callbacks, callback)

\* if callback in callbacks: callbacks.remove(callback) (list.remove drops the first
\* occurrence)
RemoveCallback(callbacks, callback) ==
    IF callback \notin Range(callbacks) THEN callbacks
    ELSE LET first == CHOOSE i \in 1..Len(callbacks) :
                          /\ callbacks[i] = callback
                          /\ \A j \in 1..(i - 1) : callbacks[j] # callback
         IN  SubSeq(callbacks, 1, first - 1) \o SubSeq(callbacks, first + 1, Len(callbacks))

Init ==
    /\ pc = [t \in Threads |-> IF t = "caller" THEN "idle" ELSE "dead"]
    /\ inReset = [t \in Threads |-> FALSE]
    /\ bus = NoBus
    /\ is_connected = FALSE
    /\ stop_receive = FALSE
    /\ received_messages = << >>
    /\ error_callbacks = << >>
    /\ bus_error_count = 0
    /\ last_error_time = 0
    /\ auto_reset_enabled = TRUE
    /\ w_msg = 0
    /\ w_removed = 0
    /\ c_left = 0
    /\ clock = StartTime
    /\ openHandles = {}
    /\ opened = 0
    /\ frames = 0
    /\ faultEvents = 0
    /\ calls = 0
    /\ autoResets = 0
    /\ scenarioClean = TRUE
    /\ r_count0 = [t \in Threads |-> 0]
    /\ lastNotify = [kind |-> "none", to |-> << >>]
    /\ lock = "free"
    /\ message_callbacks = << >>
    /\ delivered = [o \in Observers |-> << >>]
    /\ drained = FALSE
    /\ liveWorkers = 0
    /\ shutdowns = 0
    /\ lastSend = NoSend
    /\ r_stages = [t \in Threads |-> << >>]
    /\ faultLog = << >>
    /\ codec = NoCall
    /\ lastRaised = << >>
    /\ lastFault = NoFault
    /\ messages = << >>
    /\ max_count = 0
    /\ lastReg = NoReg
    /\ r_frames0 = 0


\* -------------------------------------------------- shared procedures
\* where a thread continues when the operation it called returns
Home(t) == IF t = "caller" THEN "idle" ELSE "loop"
AfterDisconnect(t) == IF inReset[t] THEN "r_sleep" ELSE Home(t)

\* clear_received_messages: one get_nowait per step, until Empty
ClearStep(t) ==
    /\ pc[t] = "r_clear"
    /\ IF received_messages # << >>
       THEN /\ received_messages' = Tail(received_messages)
            /\ drained' = TRUE
            /\ pc' = pc
       ELSE /\ received_messages' = received_messages
            /\ drained' = drained
            /\ pc' = [pc EXCEPT ![t] = IF inReset[t] THEN "d_stop" ELSE Home(t)]
    /\ UNCHANGED << inReset, bus, is_connected, stop_receive, error_callbacks,
                    bus_error_count, last_error_time, auto_reset_enabled, w_msg,
                    w_removed, c_left, clock, openHandles, opened, frames,
                    faultEvents, calls, autoResets, scenarioClean, r_count0,
                    lastNotify >>
    /\ UNCHANGED << lock, message_callbacks, delivered, liveWorkers, shutdowns >>
    /\ r_stages' = IF received_messages = << >> THEN StagesAfter(t, "drain")
                                                ELSE r_stages
    /\ UNCHANGED << lastSend, faultLog, codec >>
    /\ r_frames0' = IF received_messages = << >> /\ inReset[t] /\ t = "caller"
                    THEN frames ELSE r_frames0
    /\ UNCHANGED << lastRaised, lastFault, messages, max_count, lastReg >>

\* disconnect -> stop_receive_thread: set the stop event and join the worker
StopReceiveThread(t) ==
    /\ pc[t] = "d_stop"
    /\ IF WorkerAlive
       THEN /\ stop_receive' = TRUE
            /\ pc' = [pc EXCEPT ![t] = IF JoinRaises(t) THEN AfterDisconnect(t)
                                                        ELSE "d_join"]
       ELSE /\ stop_receive' = stop_receive
            /\ pc' = [pc EXCEPT ![t] = "d_shut"]
    /\ UNCHANGED << inReset, bus, is_connected, received_messages, error_callbacks,
                    bus_error_count, last_error_time, auto_reset_enabled, w_msg,
                    w_removed, c_left, clock, openHandles, opened, frames,
                    faultEvents, calls, autoResets, scenarioClean, r_count0,
                    lastNotify >>
    /\ UNCHANGED << lock, message_callbacks, delivered, drained, liveWorkers, shutdowns >>
    /\ r_stages' = IF WorkerAlive /\ JoinRaises(t)
                   THEN StagesAfter(t, "disconnect aborted") ELSE r_stages
    /\ UNCHANGED << lastSend, faultLog, codec >>
    /\ UNCHANGED << lastRaised, lastFault, messages, max_count, lastReg, r_frames0 >>

\* receive_thread.join(timeout=2.0) returns: the worker has exited
JoinReturns(t) ==
    /\ pc[t] = "d_join"
    /\ ~WorkerAlive
    /\ pc' = [pc EXCEPT ![t] = "d_shut"]
    /\ UNCHANGED << inReset, bus, is_connected, stop_receive, received_messages,
                    error_callbacks, bus_error_count, last_error_time,
                    auto_reset_enabled, w_msg, w_removed, c_left, clock, openHandles,
                    opened, frames, faultEvents, calls, autoResets,
                    scenarioClean, r_count0, lastNotify >>
    /\ UNCHANGED << lock, message_callbacks, delivered, drained, liveWorkers, shutdowns >>
    /\ UNCHANGED << lastSend, r_stages, faultLog, codec >>
    /\ UNCHANGED << lastRaised, lastFault, messages, max_count, lastReg, r_frames0 >>

\* receive_thread.join(timeout=2.0) returns: the timeout expired, the worker lives on
JoinTimesOut(t) ==
    /\ pc[t] = "d_join"
    /\ WorkerAlive
    /\ WorkerSlow
    /\ pc' = [pc EXCEPT ![t] = "d_shut"]
    /\ UNCHANGED << inReset, bus, is_connected, stop_receive, received_messages,
                    error_callbacks, bus_error_count, last_error_time,
                    auto_reset_enabled, w_msg, w_removed, c_left, clock, openHandles,
                    opened, frames, faultEvents, calls, autoResets,
                    scenarioClean, r_count0, lastNotify >>
    /\ UNCHANGED << lock, message_callbacks, delivered, drained, liveWorkers, shutdowns >>
    /\ UNCHANGED << lastSend, r_stages, faultLog, codec >>
    /\ UNCHANGED << lastRaised, lastFault, messages, max_count, lastReg, r_frames0 >>

\* disconnect: if self.bus: self.bus.shutdown(); self.bus = None / self.is_connected = False
\* When shutdown raises, the except clause only logs: bus and flag keep their values.
\* mayRaise: whether the backend's shutdown can raise, {FALSE} or BOOLEAN.
ShutdownBus(t, mayRaise) ==
    /\ pc[t] = "d_shut"
    /\ \E raises \in mayRaise :
        IF bus # NoBus /\ raises
        THEN UNCHANGED << bus, is_connected, openHandles >>
        ELSE /\ openHandles' = openHandles \ {bus}
             /\ bus' = NoBus
             /\ is_connected' = FALSE
    /\ shutdowns' = IF bus # NoBus THEN shutdowns + 1 ELSE shutdowns
    /\ pc' = [pc EXCEPT ![t] = AfterDisconnect(t)]
    /\ UNCHANGED << inReset, stop_receive, received_messages, error_callbacks,
                    bus_error_count, last_error_time, auto_reset_enabled, w_msg,
                    w_removed, c_left, clock, opened, frames, faultEvents,
                    calls, autoResets, scenarioClean, r_count0, lastNotify >>
    /\ UNCHANGED << lock, message_callbacks, delivered, drained, liveWorkers >>
    /\ r_stages' = StagesAfter(t, "disconnect")
    /\ UNCHANGED << lastSend, faultLog, codec >>
    /\ UNCHANGED << lastRaised, lastFault, messages, max_count, lastReg, r_frames0 >>

\* time.sleep(1) between disconnect and connect
Settle(t) ==
    /\ pc[t] = "r_sleep"
    /\ pc' = [pc EXCEPT ![t] = "c_open"]
    /\ UNCHANGED << inReset, bus, is_connected, stop_receive, received_messages,
                    error_callbacks, bus_error_count, last_error_time,
                    auto_reset_enabled, w_msg, w_removed, c_left, clock, openHandles,
                    opened, frames, faultEvents, calls, autoResets,
                    scenarioClean, r_count0, lastNotify >>
    /\ UNCHANGED << lock, message_callbacks, delivered, drained, liveWorkers, shutdowns >>
    /\ r_stages' = StagesAfter(t, "settle")
    /\ UNCHANGED << lastSend, faultLog, codec >>
    /\ UNCHANGED << lastRaised, lastFault, messages, max_count, lastReg, r_frames0 >>

\* connect, backend open succeeds: self.bus = can.Bus(...); self.is_connected = True;
\* start_receive_thread() (a no-op while the receive thread is alive)
ConnectOk(t) ==
    /\ pc[t] = "c_open"
    /\ opened < MaxOpens
    /\ opened' = opened + 1
    /\ openHandles' = openHandles \cup {opened + 1}
    /\ bus' = opened + 1
    /\ is_connected' = ConnectedAfterOpen(TRUE, is_connected)
    /\ IF StartsWorker(WorkerAlive)
       THEN /\ stop_receive' = FALSE
            /\ liveWorkers' = liveWorkers + 1
            /\ pc' = [pc EXCEPT !["worker"] = "loop",
                                   ![t] = IF inReset[t] THEN "r_ok" ELSE Home(t)]
       ELSE /\ stop_receive' = stop_receive
            /\ liveWorkers' = liveWorkers
            /\ pc' = [pc EXCEPT ![t] = IF inReset[t] THEN "r_ok" ELSE Home(t)]
    /\ UNCHANGED << inReset, received_messages, error_callbacks, bus_error_count,
                    last_error_time, auto_reset_enabled, w_msg, w_removed, c_left,
                    clock, frames, faultEvents, calls, autoResets,
                    scenarioClean, r_count0, lastNotify >>
    /\ UNCHANGED << lock, message_callbacks, delivered, drained, shutdowns >>
    /\ r_stages' = StagesAfter(t, "reconnect")
    /\ UNCHANGED << lastSend, faultLog, codec >>
    /\ UNCHANGED << lastRaised, lastFault, messages, max_count, lastReg, r_frames0 >>

\* connect, backend open raises: self.is_connected = False; return False
ConnectFails(t) ==
    /\ pc[t] = "c_open"
    /\ is_connected' = ConnectedAfterOpen(FALSE, is_connected)
    /\ pc' = [pc EXCEPT ![t] = IF inReset[t] THEN "r_fail" ELSE Home(t)]
    /\ scenarioClean' = (scenarioClean /\ ~inReset[t])
    /\ UNCHANGED << inReset, bus, stop_receive, received_messages, error_callbacks,
                    bus_error_count, last_error_time, auto_reset_enabled, w_msg,
                    w_removed, c_left, clock, openHandles, opened, frames,
                    faultEvents, calls, autoResets, r_count0, lastNotify >>
    /\ UNCHANGED << lock, message_callbacks, delivered, drained, liveWorkers, shutdowns >>
    /\ r_stages' = StagesAfter(t, "reconnect")
    /\ UNCHANGED << lastSend, faultLog, codec >>
    /\ UNCHANGED << lastRaised, lastFault, messages, max_count, lastReg, r_frames0 >>

\* _auto_reset_bus: if self.connect(): self.bus_error_count = 0 ... else: log
ResetBranch(t) ==
    /\ pc[t] \in {"r_ok", "r_fail"}
    /\ bus_error_count' = CountAfterReconnect(pc[t] = "r_ok", bus_error_count)
    /\ pc' = [pc EXCEPT ![t] = IF pc[t] = "r_ok" THEN "r_notify" ELSE "r_done_fail"]
    /\ UNCHANGED << inReset, bus, is_connected, stop_receive, received_messages,
                    error_callbacks, last_error_time, auto_reset_enabled, w_msg,
                    w_removed, c_left, clock, openHandles, opened, frames,
                    faultEvents, calls, autoResets, scenarioClean, r_count0,
                    lastNotify >>
    /\ UNCHANGED << lock, message_callbacks, delivered, drained, liveWorkers, shutdowns >>
    /\ faultLog' = IF pc[t] = "r_ok" THEN << >> ELSE faultLog
    /\ UNCHANGED << lastSend, r_stages, codec >>
    /\ UNCHANGED << lastRaised, lastFault, messages, max_count, lastReg, r_frames0 >>

\* _auto_reset_bus: with self.lock: callback("Bus auto-reset completed successfully")
ResetNotify(t) ==
    /\ pc[t] = "r_notify"
    /\ lock = "free"
    /\ \E raising \in SUBSET Range(error_callbacks) :
        lastNotify' = [kind |-> "recovery", to |-> Invoked(error_callbacks, raising)]
    /\ pc' = [pc EXCEPT ![t] = "r_done_ok"]
    /\ UNCHANGED << inReset, bus, is_connected, stop_receive, received_messages,
                    error_callbacks, bus_error_count, last_error_time,
                    auto_reset_enabled, w_msg, w_removed, c_left, clock, openHandles,
                    opened, frames, faultEvents, calls, autoResets,
                    scenarioClean, r_count0 >>
    /\ UNCHANGED << lock, message_callbacks, delivered, drained, liveWorkers, shutdowns >>
    /\ UNCHANGED << lastSend, r_stages, faultLog, codec >>
    /\ UNCHANGED << lastRaised, lastFault, messages, max_count, lastReg, r_frames0 >>

\* _auto_reset_bus returns to its caller
ResetReturn(t) ==
    /\ pc[t] \in {"r_done_ok", "r_done_fail"}
    /\ pc' = [pc EXCEPT ![t] = Home(t)]
    /\ inReset' = [inReset EXCEPT ![t] = FALSE]
    /\ r_count0' = [r_count0 EXCEPT ![t] = 0]
    /\ UNCHANGED << bus, is_connected, stop_receive, received_messages,
                    error_callbacks, bus_error_count, last_error_time,
                    auto_reset_enabled, w_msg, w_removed, c_left, clock, openHandles,
                    opened, frames, faultEvents, calls, autoResets,
                    scenarioClean, lastNotify >>
    /\ UNCHANGED << lock, message_callbacks, delivered, drained, liveWorkers, shutdowns >>
    /\ UNCHANGED << lastSend, r_stages, faultLog, codec >>
    /\ UNCHANGED << lastRaised, lastFault, messages, max_count, lastReg, r_frames0 >>


\* ------------------------------------------------- caller operations
\* connect() called from outside
CallConnect ==
    /\ pc["caller"] = "idle"
    /\ calls < MaxCalls
    /\ calls' = calls + 1
    /\ pc' = [pc EXCEPT !["caller"] = "c_open"]
    /\ UNCHANGED << inReset, bus, is_connected, stop_receive, received_messages,
                    error_callbacks, bus_error_count, last_error_time,
                    auto_reset_enabled, w_msg, w_removed, c_left, clock, openHandles,
                    opened, frames, faultEvents, autoResets,
                    scenarioClean, r_count0, lastNotify >>
    /\ UNCHANGED << lock, message_callbacks, delivered, drained, liveWorkers, shutdowns >>
    /\ UNCHANGED << lastSend, r_stages, faultLog, codec >>
    /\ UNCHANGED << lastRaised, lastFault, messages, max_count, lastReg, r_frames0 >>

\* disconnect() called from outside
CallDisconnect ==
    /\ pc["caller"] = "idle"
    /\ calls < MaxCalls
    /\ calls' = calls + 1
    /\ pc' = [pc EXCEPT !["caller"] = "d_stop"]
    /\ UNCHANGED << inReset, bus, is_connected, stop_receive, received_messages,
                    error_callbacks, bus_error_count, last_error_time,
                    auto_reset_enabled, w_msg, w_removed, c_left, clock, openHandles,
                    opened, frames, faultEvents, autoResets,
                    scenarioClean, r_count0, lastNotify >>
    /\ UNCHANGED << lock, message_callbacks, delivered, drained, liveWorkers, shutdowns >>
    /\ UNCHANGED << lastSend, r_stages, faultLog, codec >>
    /\ UNCHANGED << lastRaised, lastFault, messages, max_count, lastReg, r_frames0 >>

\* manual_reset_bus(): calls _auto_reset_bus without looking at count or flag
manual_reset_bus ==
    /\ pc["caller"] = "idle"
    /\ calls < MaxCalls
    /\ calls' = calls + 1
    /\ IF ManualResetProceeds(bus_error_count, auto_reset_enabled)
       THEN /\ pc' = [pc EXCEPT !["caller"] = "r_clear"]
            /\ inReset' = [inReset EXCEPT !["caller"] = TRUE]
       ELSE UNCHANGED << pc, inReset >>
    /\ r_count0' = [r_count0 EXCEPT !["caller"] = bus_error_count]
    /\ r_stages' = [r_stages EXCEPT !["caller"] = << "manual_reset_bus" >>]
    /\ scenarioClean' = FALSE
    /\ UNCHANGED << bus, is_connected, stop_receive, received_messages,
                    error_callbacks, bus_error_count, last_error_time,
                    auto_reset_enabled, w_msg, w_removed, c_left, clock, openHandles,
                    opened, frames, faultEvents, autoResets, lastNotify >>
    /\ UNCHANGED << lock, message_callbacks, delivered, drained, liveWorkers, shutdowns >>
    /\ UNCHANGED << lastSend, faultLog, codec >>
    /\ UNCHANGED << lastRaised, lastFault, messages, max_count, lastReg, r_frames0 >>

\* send_message() called from outside: the guard
send_message ==
    /\ pc["caller"] = "idle"
    /\ calls < MaxCalls
    /\ calls' = calls + 1
    /\ IF SendRefused(is_connected, bus)
       THEN /\ lastSend' = [ret |-> SendReturn(FALSE), sends |-> 0,
                            raised |-> FALSE, refused |-> TRUE]
            /\ pc' = pc
       ELSE /\ lastSend' = [ret |-> "pending", sends |-> 0,
                            raised |-> FALSE, refused |-> FALSE]
            /\ pc' = [pc EXCEPT !["caller"] = "s_send"]
    /\ UNCHANGED << inReset, bus, is_connected, stop_receive, received_messages,
                    error_callbacks, bus_error_count, last_error_time,
                    auto_reset_enabled, w_msg, w_removed, c_left, clock, openHandles,
                    opened, frames, faultEvents, autoResets, scenarioClean,
                    r_count0, lastNotify >>
    /\ UNCHANGED << lock, message_callbacks, delivered, drained, liveWorkers, shutdowns >>
    /\ UNCHANGED << r_stages, faultLog, codec >>
    /\ UNCHANGED << lastRaised, lastFault, messages, max_count, lastReg, r_frames0 >>

\* send_message: msg = can.Message(...); self.bus.send(msg); return True, all inside
\* try/except Exception. On a bus that is None by now the attribute access raises
\* before any backend call; the backend's send returns or raises.
BusSend ==
    /\ pc["caller"] = "s_send"
    /\ \E ok \in BOOLEAN :
        LET sent == IF bus = NoBus THEN lastSend.sends ELSE lastSend.sends + 1
            good == ok /\ bus # NoBus
        IN  IF SendAgain(~good, sent)
            THEN /\ lastSend' = [lastSend EXCEPT !.sends = sent,
                                                 !.raised = @ \/ (~ok /\ bus # NoBus)]
                 /\ pc' = pc
            ELSE /\ lastSend' = [lastSend EXCEPT !.ret = SendReturn(good),
                                                 !.sends = sent,
                                                 !.raised = @ \/ (~ok /\ bus # NoBus)]
                 /\ pc' = [pc EXCEPT !["caller"] = "idle"]
    /\ UNCHANGED << inReset, bus, is_connected, stop_receive, received_messages,
                    error_callbacks, bus_error_count, last_error_time,
                    auto_reset_enabled, w_msg, w_removed, c_left, clock, openHandles,
                    opened, frames, faultEvents, calls, autoResets, scenarioClean,
                    r_count0, lastNotify >>
    /\ UNCHANGED << lock, message_callbacks, delivered, drained, liveWorkers, shutdowns >>
    /\ UNCHANGED << r_stages, faultLog, codec >>
    /\ UNCHANGED << lastRaised, lastFault, messages, max_count, lastReg, r_frames0 >>

\* clear_received_messages() called from outside
CallClear ==
    /\ pc["caller"] = "idle"
    /\ calls < MaxCalls
    /\ calls' = calls + 1
    /\ pc' = [pc EXCEPT !["caller"] = "r_clear"]
    /\ UNCHANGED << inReset, bus, is_connected, stop_receive, received_messages,
                    error_callbacks, bus_error_count, last_error_time,
                    auto_reset_enabled, w_msg, w_removed, c_left, clock, openHandles,
                    opened, frames, faultEvents, autoResets,
                    scenarioClean, r_count0, lastNotify >>
    /\ UNCHANGED << lock, message_callbacks, delivered, drained, liveWorkers, shutdowns >>
    /\ UNCHANGED << lastSend, r_stages, faultLog, codec >>
    /\ UNCHANGED << lastRaised, lastFault, messages, max_count, lastReg, r_frames0 >>

\* get_received_messages(max_count)
CallGet ==
    /\ pc["caller"] = "idle"
    /\ calls < MaxCalls
    /\ calls' = calls + 1
    /\ \E n \in 1..MaxGet : c_left' = n /\ max_count' = n
    /\ messages' = << >>
    /\ pc' = [pc EXCEPT !["caller"] = "g_loop"]
    /\ UNCHANGED << inReset, bus, is_connected, stop_receive, received_messages,
                    error_callbacks, bus_error_count, last_error_time,
                    auto_reset_enabled, w_msg, w_removed, clock, openHandles, opened,
                    frames, faultEvents, autoResets, scenarioClean,
                    r_count0, lastNotify >>
    /\ UNCHANGED << lock, message_callbacks, delivered, drained, liveWorkers, shutdowns >>
    /\ UNCHANGED << lastSend, r_stages, faultLog, codec >>
    /\ UNCHANGED << lastRaised, lastFault, lastReg, r_frames0 >>

\* get_received_messages: while count < max_count: get_nowait(), until Empty
GetStep ==
    /\ pc["caller"] = "g_loop"
    /\ IF c_left > 0 /\ received_messages # << >>
       THEN /\ received_messages' = Dequeued(received_messages).rest
            /\ messages' = Append(messages, Dequeued(received_messages).item)
            /\ c_left' = c_left - 1
            /\ drained' = TRUE
            /\ pc' = pc
       ELSE /\ received_messages' = received_messages
            /\ messages' = messages
            /\ c_left' = 0
            /\ drained' = drained
            /\ pc' = [pc EXCEPT !["caller"] = "idle"]
    /\ UNCHANGED << inReset, bus, is_connected, stop_receive, error_callbacks,
                    bus_error_count, last_error_time, auto_reset_enabled, w_msg,
                    w_removed, clock, openHandles, opened, frames, faultEvents,
                    calls, autoResets, scenarioClean, r_count0, lastNotify >>
    /\ UNCHANGED << lock, message_callbacks, delivered, liveWorkers, shutdowns >>
    /\ UNCHANGED << lastSend, r_stages, faultLog, codec >>
    /\ UNCHANGED << lastRaised, lastFault, max_count, lastReg, r_frames0 >>

\* enable_auto_reset(enabled)
enable_auto_reset ==
    /\ pc["caller"] = "idle"
    /\ calls < MaxCalls
    /\ calls' = calls + 1
    /\ \E enabled \in BOOLEAN :
        /\ auto_reset_enabled' = enabled
        /\ scenarioClean' = (scenarioClean /\ enabled)
    /\ UNCHANGED << pc, inReset, bus, is_connected, stop_receive, received_messages,
                    error_callbacks, bus_error_count, last_error_time, w_msg,
                    w_removed, c_left, clock, openHandles, opened, frames,
                    faultEvents, autoResets, r_count0, lastNotify >>
    /\ UNCHANGED << lock, message_callbacks, delivered, drained, liveWorkers, shutdowns >>
    /\ UNCHANGED << lastSend, r_stages, faultLog, codec >>
    /\ UNCHANGED << lastRaised, lastFault, messages, max_count, lastReg, r_frames0 >>

\* add_error_callback(callback): appended unless already in the list
add_error_callback ==
    /\ pc["caller"] = "idle"
    /\ calls < MaxCalls
    /\ calls' = calls + 1
    /\ lock = "free"
    /\ \E o \in Observers :
        /\ error_callbacks' = AddCallback(error_callbacks, o)
        /\ lastReg' = RegCall("add", "error", o, error_callbacks)
    /\ UNCHANGED << pc, inReset, bus, is_connected, stop_receive, received_messages,
                    bus_error_count, last_error_time, auto_reset_enabled, w_msg,
                    w_removed, c_left, clock, openHandles, opened, frames,
                    faultEvents, autoResets, scenarioClean, r_count0,
                    lastNotify >>
    /\ UNCHANGED << lock, message_callbacks, delivered, drained, liveWorkers, shutdowns >>
    /\ UNCHANGED << lastSend, r_stages, faultLog, codec >>
    /\ UNCHANGED << lastRaised, lastFault, messages, max_count, r_frames0 >>

\* remove_error_callback(callback): removed when in the list
remove_error_callback ==
    /\ pc["caller"] = "idle"
    /\ calls < MaxCalls
    /\ calls' = calls + 1
    /\ lock = "free"
    /\ \E o \in Observers :
        /\ error_callbacks' = RemoveCallback(error_callbacks, o)
        /\ lastReg' = RegCall("remove", "error", o, error_callbacks)
    /\ UNCHANGED << pc, inReset, bus, is_connected, stop_receive, received_messages,
                    bus_error_count, last_error_time, auto_reset_enabled, w_msg,
                    w_removed, c_left, clock, openHandles, opened, frames,
                    faultEvents, autoResets, scenarioClean, r_count0,
                    lastNotify >>
    /\ UNCHANGED << lock, message_callbacks, delivered, drained, liveWorkers, shutdowns >>
    /\ UNCHANGED << lastSend, r_stages, faultLog, codec >>
    /\ UNCHANGED << lastRaised, lastFault, messages, max_count, r_frames0 >>

\* add_message_callback(callback): with self.lock; appended unless already in the list
add_message_callback ==
    /\ pc["caller"] = "idle"
    /\ calls < MaxCalls
    /\ calls' = calls + 1
    /\ lock = "free"
    /\ \E o \in Observers :
        /\ message_callbacks' = AddCallback(message_callbacks, o)
        /\ lastReg' = RegCall("add", "message", o, message_callbacks)
    /\ UNCHANGED << pc, inReset, bus, is_connected, stop_receive, received_messages,
                    error_callbacks, bus_error_count, last_error_time,
                    auto_reset_enabled, w_msg, w_removed, c_left, clock, openHandles,
                    opened, frames, faultEvents, autoResets, scenarioClean, r_count0,
                    lastNotify, lock, delivered, drained, liveWorkers, shutdowns >>
    /\ UNCHANGED << lastSend, r_stages, faultLog, codec >>
    /\ UNCHANGED << lastRaised, lastFault, messages, max_count, r_frames0 >>

\* remove_message_callback(callback): with self.lock; removed when in the list
remove_message_callback ==
    /\ pc["caller"] = "idle"
    /\ calls < MaxCalls
    /\ calls' = calls + 1
    /\ lock = "free"
    /\ \E o \in Observers :
        /\ message_callbacks' = RemoveCallback(message_callbacks, o)
        /\ lastReg' = RegCall("remove", "message", o, message_callbacks)
    /\ UNCHANGED << pc, inReset, bus, is_connected, stop_receive, received_messages,
                    error_callbacks, bus_error_count, last_error_time,
                    auto_reset_enabled, w_msg, w_removed, c_left, clock, openHandles,
                    opened, frames, faultEvents, autoResets, scenarioClean, r_count0,
                    lastNotify, lock, delivered, drained, liveWorkers, shutdowns >>
    /\ UNCHANGED << lastSend, r_stages, faultLog, codec >>
    /\ UNCHANGED << lastRaised, lastFault, messages, max_count, r_frames0 >>

\* time passes
Tick ==
    /\ clock + TickStep <= MaxTime
    /\ clock' = clock + TickStep
    /\ UNCHANGED << pc, inReset, bus, is_connected, stop_receive, received_messages,
                    error_callbacks, bus_error_count, last_error_time,
                    auto_reset_enabled, w_msg, w_removed, c_left, openHandles, opened,
                    frames, faultEvents, calls, autoResets, scenarioClean,
                    r_count0, lastNotify >>
    /\ UNCHANGED << lock, message_callbacks, delivered, drained, liveWorkers, shutdowns >>
    /\ UNCHANGED << lastSend, r_stages, faultLog, codec >>
    /\ UNCHANGED << lastRaised, lastFault, messages, max_count, lastReg, r_frames0 >>


\* ---------------------------------------------------- receive worker
\* while not self.stop_receive.is_set() and self.is_connected: if not self.bus: break
WorkerLoop ==
    /\ pc["worker"] = "loop"
    /\ pc' = [pc EXCEPT !["worker"] = IF LoopContinues THEN "recv" ELSE "dead"]
    /\ liveWorkers' = IF LoopContinues THEN liveWorkers ELSE liveWorkers - 1
    /\ UNCHANGED << inReset, bus, is_connected, stop_receive, received_messages,
                    error_callbacks, bus_error_count, last_error_time,
                    auto_reset_enabled, w_msg, w_removed, c_left, clock, openHandles,
                    opened, frames, faultEvents, calls, autoResets,
                    scenarioClean, r_count0, lastNotify >>
    /\ UNCHANGED << lock, message_callbacks, delivered, drained, shutdowns >>
    /\ UNCHANGED << lastSend, r_stages, faultLog, codec >>
    /\ UNCHANGED << lastRaised, lastFault, messages, max_count, lastReg, r_frames0 >>

\* msg = self.bus.recv(timeout=0.1): nothing, a data frame, an error frame, or an
\* exception (with or without a bus-fault keyword in its text); on a released
\* (None) bus the call raises AttributeError. allowed: what the backend may produce.
WorkerRecv(allowed) ==
    /\ pc["worker"] = "recv"
    /\ \E outcome \in allowed :
        /\ bus = NoBus => outcome = "exc_other"
        /\ outcome = "data" => frames < MaxFrames
        /\ outcome \in {"error_frame", "exc_bus"} => faultEvents < MaxFaults
        /\ pc' = [pc EXCEPT !["worker"] = AfterRecv(outcome)]
        /\ frames' = IF outcome = "data" THEN frames + 1 ELSE frames
        /\ w_msg' = CASE outcome = "data" -> frames + 1
                       [] outcome = "error_frame" -> ErrorFrameMsg
                       [] OTHER -> w_msg
    /\ UNCHANGED << inReset, bus, is_connected, stop_receive, received_messages,
                    error_callbacks, bus_error_count, last_error_time,
                    auto_reset_enabled, w_removed, c_left, clock, openHandles, opened,
                    faultEvents, calls, autoResets, scenarioClean, r_count0,
                    lastNotify >>
    /\ UNCHANGED << lock, message_callbacks, delivered, drained, liveWorkers, shutdowns >>
    /\ UNCHANGED << lastSend, r_stages, faultLog, codec >>
    /\ UNCHANGED << lastRaised, lastFault, messages, max_count, lastReg, r_frames0 >>

\* self.bus.recv(timeout=0.1) raises an exception with one of the sampled texts;
\* the except clause will classify it by its keywords
WorkerRecvRaises ==
    /\ pc["worker"] = "recv"
    /\ \E text \in ExceptionTexts :
        /\ bus = NoBus <=> text = TextNoBus
        /\ Classified(text) = "exc_bus" => faultEvents < MaxFaults
        /\ pc' = [pc EXCEPT !["worker"] = Classified(text)]
        /\ lastRaised' = text
    /\ UNCHANGED << inReset, bus, is_connected, stop_receive, received_messages,
                    error_callbacks, bus_error_count, last_error_time,
                    auto_reset_enabled, w_msg, w_removed, c_left, clock, openHandles,
                    opened, frames, faultEvents, calls, autoResets, scenarioClean,
                    r_count0, lastNotify >>
    /\ UNCHANGED << lock, message_callbacks, delivered, drained, liveWorkers, shutdowns >>
    /\ UNCHANGED << lastSend, r_stages, faultLog, codec >>
    /\ UNCHANGED << lastFault, messages, max_count, lastReg, r_frames0 >>

\* except Exception as e: if self.is_connected: keyword match -> _handle_bus_error
WorkerExcept ==
    /\ pc["worker"] \in {"exc_bus", "exc_other"}
    /\ pc' = [pc EXCEPT !["worker"] =
                IF is_connected /\ pc["worker"] = "exc_bus" THEN "h_count" ELSE "loop"]
    /\ UNCHANGED << inReset, bus, is_connected, stop_receive, received_messages,
                    error_callbacks, bus_error_count, last_error_time,
                    auto_reset_enabled, w_msg, w_removed, c_left, clock, openHandles,
                    opened, frames, faultEvents, calls, autoResets,
                    scenarioClean, r_count0, lastNotify >>
    /\ UNCHANGED << lock, message_callbacks, delivered, drained, liveWorkers, shutdowns >>
    /\ UNCHANGED << lastSend, r_stages, faultLog, codec >>
    /\ UNCHANGED << lastRaised, lastFault, messages, max_count, lastReg, r_frames0 >>

\* self.received_messages.put_nowait(can_msg); on Full start evicting
WorkerPut ==
    /\ pc["worker"] = "put"
    /\ IF QueueFull(received_messages)
       THEN /\ received_messages' = received_messages
            /\ pc' = [pc EXCEPT !["worker"] = "evict"]
       ELSE /\ received_messages' = Append(received_messages, w_msg)
            /\ pc' = [pc EXCEPT !["worker"] = "notify"]
    /\ w_removed' = 0
    /\ UNCHANGED << inReset, bus, is_connected, stop_receive, error_callbacks,
                    bus_error_count, last_error_time, auto_reset_enabled, w_msg,
                    c_left, clock, openHandles, opened, frames, faultEvents,
                    calls, autoResets, scenarioClean, r_count0, lastNotify >>
    /\ UNCHANGED << lock, message_callbacks, delivered, drained, liveWorkers, shutdowns >>
    /\ UNCHANGED << lastSend, r_stages, faultLog, codec >>
    /\ UNCHANGED << lastRaised, lastFault, messages, max_count, lastReg, r_frames0 >>

\* while messages_removed < 100: get_nowait(); messages_removed += 1 / except: break
WorkerEvict ==
    /\ pc["worker"] = "evict"
    /\ IF w_removed < EvictBatch /\ received_messages # << >>
       THEN /\ received_messages' = Evicted(received_messages)
            /\ w_removed' = w_removed + 1
            /\ pc' = pc
       ELSE /\ received_messages' = received_messages
            /\ w_removed' = w_removed
            /\ pc' = [pc EXCEPT !["worker"] = "retry"]
    /\ UNCHANGED << inReset, bus, is_connected, stop_receive, error_callbacks,
                    bus_error_count, last_error_time, auto_reset_enabled, w_msg,
                    c_left, clock, openHandles, opened, frames, faultEvents,
                    calls, autoResets, scenarioClean, r_count0, lastNotify >>
    /\ UNCHANGED << lock, message_callbacks, delivered, drained, liveWorkers, shutdowns >>
    /\ UNCHANGED << lastSend, r_stages, faultLog, codec >>
    /\ UNCHANGED << lastRaised, lastFault, messages, max_count, lastReg, r_frames0 >>

\* second put_nowait; if it raises the message is skipped
WorkerRetry ==
    /\ pc["worker"] = "retry"
    /\ received_messages' = IF QueueFull(received_messages)
                            THEN received_messages
                            ELSE Append(received_messages, w_msg)
    /\ w_removed' = 0
    /\ pc' = [pc EXCEPT !["worker"] = AfterRetry]
    /\ UNCHANGED << inReset, bus, is_connected, stop_receive, error_callbacks,
                    bus_error_count, last_error_time, auto_reset_enabled, w_msg,
                    c_left, clock, openHandles, opened, frames, faultEvents,
                    calls, autoResets, scenarioClean, r_count0, lastNotify >>
    /\ UNCHANGED << lock, message_callbacks, delivered, drained, liveWorkers, shutdowns >>
    /\ UNCHANGED << lastSend, r_stages, faultLog, codec >>
    /\ UNCHANGED << lastRaised, lastFault, messages, max_count, lastReg, r_frames0 >>

\* with self.lock: for callback in self.message_callbacks: callback(can_msg)
\* The lock is taken and released within the step; every observer returns or raises.
WorkerNotify ==
    /\ pc["worker"] = "notify"
    /\ lock = "free"
    /\ \E raising \in SUBSET Range(message_callbacks) :
        LET invoked == Invoked(message_callbacks, raising)
        IN  /\ lastNotify' = [kind |-> "message", to |-> invoked]
            /\ delivered' = DeliveredAfter(invoked,
                                           NotifiedMessage(received_messages, w_msg))
    /\ w_msg' = 0
    /\ pc' = [pc EXCEPT !["worker"] = "loop"]
    /\ UNCHANGED << inReset, bus, is_connected, stop_receive, received_messages,
                    error_callbacks, bus_error_count, last_error_time,
                    auto_reset_enabled, w_removed, c_left, clock, openHandles, opened,
                    frames, faultEvents, calls, autoResets, scenarioClean,
                    r_count0 >>
    /\ UNCHANGED << lock, message_callbacks, drained, liveWorkers, shutdowns >>
    /\ UNCHANGED << lastSend, r_stages, faultLog, codec >>
    /\ UNCHANGED << lastRaised, lastFault, messages, max_count, lastReg, r_frames0 >>

\* An observer invoked under `with self.lock` calls add_/remove_*_callback, which
\* enters `with self.lock` on the same thread: threading.Lock is not reentrant, so
\* the acquire never returns. The observers before it in the list were invoked.
ObserverReenters(t) ==
    /\ lock = "free"
    /\ \/ /\ pc[t] = "notify"
          /\ \E i \in 1..Len(message_callbacks) :
              LET invoked == SubSeq(message_callbacks, 1, i)
              IN  /\ lastNotify' = [kind |-> "message", to |-> invoked]
                  /\ delivered' = DeliveredAfter(invoked,
                                        NotifiedMessage(received_messages, w_msg))
       \/ /\ pc[t] \in {"h_notify", "r_notify"}
          /\ \E i \in 1..Len(error_callbacks) :
              lastNotify' = [kind |-> IF pc[t] = "h_notify" THEN "fault" ELSE "recovery",
                             to |-> SubSeq(error_callbacks, 1, i)]
          /\ delivered' = delivered
    /\ lock' = t
    /\ pc' = [pc EXCEPT ![t] = "cb_reenter"]
    /\ UNCHANGED << inReset, bus, is_connected, stop_receive, received_messages,
                    error_callbacks, bus_error_count, last_error_time,
                    auto_reset_enabled, w_msg, w_removed, c_left, clock, openHandles,
                    opened, frames, faultEvents, calls, autoResets, scenarioClean,
                    r_count0, message_callbacks, drained, liveWorkers, shutdowns >>
    /\ UNCHANGED << lastSend, r_stages, faultLog, codec >>
    /\ lastFault' = IF pc[t] = "h_notify" THEN [lastFault EXCEPT !.seq = bus_error_count]
                  ELSE lastFault
    /\ UNCHANGED << lastRaised, messages, max_count, lastReg, r_frames0 >>

\* ------------------------------------------------------ fault monitor
\* _handle_bus_error: window check, count += 1, last_error_time = current_time
\* (the frame that led here is not used again: w_msg is cleared)
HandleBusErrorCount ==
    /\ pc["worker"] = "h_count"
    /\ bus_error_count' = (IF WindowElapsed(clock, last_error_time)
                           THEN 0 ELSE bus_error_count) + 1
    /\ last_error_time' = clock
    /\ faultEvents' = faultEvents + 1
    /\ w_msg' = 0
    /\ pc' = [pc EXCEPT !["worker"] = "h_notify"]
    /\ UNCHANGED << inReset, bus, is_connected, stop_receive, received_messages,
                    error_callbacks, auto_reset_enabled, w_removed, c_left,
                    clock, openHandles, opened, frames, calls, autoResets,
                    scenarioClean, r_count0, lastNotify >>
    /\ UNCHANGED << lock, message_callbacks, delivered, drained, liveWorkers, shutdowns >>
    /\ faultLog' = Append(faultLog, clock)
    /\ UNCHANGED << lastSend, r_stages, codec >>
    /\ lastFault' = [lastFault EXCEPT !.count = bus_error_count']
    /\ UNCHANGED << lastRaised, messages, max_count, lastReg, r_frames0 >>

\* _handle_bus_error: with self.lock: callback(f"Bus Error #{self.bus_error_count}: ...")
\* The text is formatted from the attribute when the observer is called.
HandleBusErrorNotify ==
    /\ pc["worker"] = "h_notify"
    /\ lock = "free"
    /\ \E raising \in SUBSET Range(error_callbacks) :
        lastNotify' = [kind |-> "fault", to |-> Invoked(error_callbacks, raising)]
    /\ pc' = [pc EXCEPT !["worker"] = "h_check"]
    /\ UNCHANGED << inReset, bus, is_connected, stop_receive, received_messages,
                    error_callbacks, bus_error_count, last_error_time,
                    auto_reset_enabled, w_msg, w_removed, c_left, clock, openHandles,
                    opened, frames, faultEvents, calls, autoResets,
                    scenarioClean, r_count0 >>
    /\ UNCHANGED << lock, message_callbacks, delivered, drained, liveWorkers, shutdowns >>
    /\ UNCHANGED << lastSend, r_stages, faultLog, codec >>
    /\ lastFault' = IF error_callbacks = << >> THEN lastFault
                  ELSE [lastFault EXCEPT !.seq = bus_error_count]
    /\ UNCHANGED << lastRaised, messages, max_count, lastReg, r_frames0 >>

\* _handle_bus_error: threshold check; on a hit _auto_reset_bus() runs on this thread
HandleBusErrorCheck ==
    /\ pc["worker"] = "h_check"
    /\ IF ThresholdReached(bus_error_count, auto_reset_enabled)
       THEN /\ pc' = [pc EXCEPT !["worker"] = "r_clear"]
            /\ inReset' = [inReset EXCEPT !["worker"] = TRUE]
            /\ r_count0' = [r_count0 EXCEPT !["worker"] = bus_error_count]
            /\ autoResets' = autoResets + 1
            /\ r_stages' = [r_stages EXCEPT !["worker"] = << "_handle_bus_error" >>]
       ELSE /\ pc' = [pc EXCEPT !["worker"] = "loop"]
            /\ UNCHANGED << inReset, r_count0, autoResets, r_stages >>
    /\ UNCHANGED << bus, is_connected, stop_receive, received_messages,
                    error_callbacks, bus_error_count, last_error_time,
                    auto_reset_enabled, w_msg, w_removed, c_left, clock, openHandles,
                    opened, frames, faultEvents, calls, scenarioClean,
                    lastNotify >>
    /\ UNCHANGED << lock, message_callbacks, delivered, drained, liveWorkers, shutdowns >>
    /\ UNCHANGED << lastSend, faultLog, codec >>
    /\ UNCHANGED << lastRaised, lastFault, messages, max_count, lastReg, r_frames0 >>

\* ------------------------------------------------------ protocol codec
\* the CANInterface state, which no ServoProtocol function touches
transport ==
    << pc, inReset, bus, is_connected, stop_receive, received_messages,
       error_callbacks, bus_error_count, last_error_time, auto_reset_enabled,
       w_msg, w_removed, c_left, clock, openHandles, opened, frames, faultEvents,
       calls, autoResets, scenarioClean, r_count0, lastNotify, lock,
       message_callbacks, delivered, drained, liveWorkers, shutdowns, lastSend,
       r_stages, faultLog, lastRaised, lastFault, messages, max_count, lastReg,
       r_frames0 >>

\* create_write_message called on sampled arguments
EncodeWrite ==
    /\ codec = NoCall
    /\ \E servo_id \in DeviceIds, address \in Addresses, value \in Values :
        codec' = Encoded("create_write_message", << servo_id, address, value >>,
                         create_write_message(servo_id, address, value))
    /\ UNCHANGED transport

\* create_write_dual_message called on sampled arguments
EncodeWriteDual ==
    /\ codec = NoCall
    /\ \E servo_id \in DeviceIds, address_a \in Addresses, value_a \in Values,
          address_b \in Addresses, value_b \in Values :
        codec' = Encoded("create_write_dual_message",
                         << servo_id, address_a, value_a, address_b, value_b >>,
                         create_write_dual_message(servo_id, address_a, value_a,
                                                   address_b, value_b))
    /\ UNCHANGED transport

\* create_read_message called on sampled arguments
EncodeRead ==
    /\ codec = NoCall
    /\ \E servo_id \in DeviceIds, address \in Addresses :
        codec' = Encoded("create_read_message", << servo_id, address >>,
                         create_read_message(servo_id, address))
    /\ UNCHANGED transport

\* create_read_dual_message called on sampled arguments
EncodeReadDual ==
    /\ codec = NoCall
    /\ \E servo_id \in DeviceIds, address_a \in Addresses, address_b \in Addresses :
        codec' = Encoded("create_read_dual_message",
                         << servo_id, address_a, address_b >>,
                         create_read_dual_message(servo_id, address_a, address_b))
    /\ UNCHANGED transport

\* create_save_reset_message called on every device id
EncodeSaveReset ==
    /\ codec = NoCall
    /\ \E servo_id \in 0..255 :
        codec' = Encoded("create_save_reset_message", << servo_id >>,
                         create_save_reset_message(servo_id))
    /\ UNCHANGED transport

\* create_old_format_write called on sampled arguments
EncodeOldWrite ==
    /\ codec = NoCall
    /\ \E servo_id \in DeviceIds, address \in Addresses, value \in Values :
        codec' = Encoded("create_old_format_write", << servo_id, address, value >>,
                         create_old_format_write(servo_id, address, value))
    /\ UNCHANGED transport

\* create_old_format_read called on sampled arguments
EncodeOldRead ==
    /\ codec = NoCall
    /\ \E servo_id \in DeviceIds, address \in Addresses :
        codec' = Encoded("create_old_format_read", << servo_id, address >>,
                         create_old_format_read(servo_id, address))
    /\ UNCHANGED transport

\* parse_response_message(data) on a byte string from outside
ParseBytes ==
    /\ codec = NoCall
    /\ \E n \in 0..MaxPayloadLen : \E data \in ByteStrings(n) :
        codec' = [NoCall EXCEPT !.fn = "parse_response_message", !.args = data,
                                !.parsed = TRUE,
                                !.resp = parse_response_message(data)]
    /\ UNCHANGED transport

\* parse_response_message on the payload the last encoder call returned, as it is
\* or with its tag byte replaced by RESPONSE_SINGLE
ParseEncoded ==
    /\ codec.fn \notin {"none", "parse_response_message"}
    /\ ~codec.raised
    /\ ~codec.parsed
    /\ \E retagged \in BOOLEAN :
        LET data == IF retagged THEN << RESPONSE_SINGLE >> \o Tail(codec.payload)
                                ELSE codec.payload
        IN  codec' = [codec EXCEPT !.parsed = TRUE, !.retagged = retagged,
                                   !.resp = parse_response_message(data)]
    /\ UNCHANGED transport

\* ServoProtocol keeps no state between calls: the result is dropped
CodecReturn ==
    /\ codec # NoCall
    /\ codec' = NoCall
    /\ UNCHANGED transport

\* ------------------------------------------------------ specification
\* what the backend's recv may produce in each specification
FaultOutcomes == {"none", "error_frame", "exc_bus", "exc_other"}
DataOutcomes == {"none", "data", "exc_other"}
ObserverOutcomes == {"none", "data", "error_frame"}

\* the reset sequence as the thread inside _auto_reset_bus runs it
ResetSteps ==
    \/ \E t \in Threads : ClearStep(t)
    \/ \E t \in Threads : StopReceiveThread(t)
    \/ \E t \in Threads : Settle(t)
    \/ \E t \in Threads : ConnectOk(t)
    \/ \E t \in Threads : ConnectFails(t)
    \/ \E t \in Threads : ResetBranch(t)
    \/ \E t \in Threads : ResetNotify(t)
    \/ \E t \in Threads : ResetReturn(t)

\* the steps of disconnect that only a thread other than the worker reaches
DisconnectSteps(mayRaise) ==
    \/ \E t \in Threads : JoinReturns(t)
    \/ \E t \in Threads : ShutdownBus(t, mayRaise)

\* the join of stop_receive_thread gives up after its grace period
JoinExpires == \E t \in Threads : JoinTimesOut(t)

\* the receive loop's fault path
FaultPath ==
    \/ WorkerLoop
    \/ WorkerRecv(FaultOutcomes)
    \/ WorkerExcept
    \/ HandleBusErrorCount
    \/ HandleBusErrorNotify
    \/ HandleBusErrorCheck

\* Spec: lifecycle, observers and fault monitor. The backend delivers faults and no
\* data frames, its shutdown does not raise, and all faults fall at one instant.
Next ==
    \/ CallConnect
    \/ CallDisconnect
    \/ manual_reset_bus
    \/ enable_auto_reset
    \/ add_error_callback
    \/ remove_error_callback
    \/ ResetSteps
    \/ DisconnectSteps({FALSE})
    \/ JoinExpires
    \/ FaultPath

Spec == Init /\ [][Next]_vars

\* SpecClock: the fault monitor with time passing between faults; the caller
\* connects, disconnects and switches auto-reset, and registers no observers.
NextClock ==
    \/ CallConnect
    \/ CallDisconnect
    \/ enable_auto_reset
    \/ Tick
    \/ ResetSteps
    \/ DisconnectSteps({FALSE})
    \/ JoinExpires
    \/ FaultPath

SpecClock == Init /\ [][NextClock]_vars

\* SpecQueue: lifecycle and the data path of the receive pipeline. The backend
\* delivers data frames and no faults; its shutdown may raise.
NextQueue ==
    \/ CallConnect
    \/ CallDisconnect
    \/ manual_reset_bus
    \/ CallClear
    \/ CallGet
    \/ GetStep
    \/ ResetSteps
    \/ DisconnectSteps(BOOLEAN)
    \/ WorkerLoop
    \/ WorkerRecv(DataOutcomes)
    \/ WorkerExcept
    \/ WorkerPut
    \/ WorkerEvict
    \/ WorkerRetry
    \/ WorkerNotify

SpecQueue == Init /\ [][NextQueue]_vars

\* SpecObservers: the receive loop with message and error observers. The backend
\* delivers data frames and error frames; an observer returns, raises, or calls
\* back into the registries.
NextObservers ==
    \/ CallConnect
    \/ CallDisconnect
    \/ add_message_callback
    \/ remove_message_callback
    \/ add_error_callback
    \/ ResetSteps
    \/ DisconnectSteps({FALSE})
    \/ JoinExpires
    \/ WorkerLoop
    \/ WorkerRecv(ObserverOutcomes)
    \/ WorkerPut
    \/ WorkerEvict
    \/ WorkerRetry
    \/ WorkerNotify
    \/ HandleBusErrorCount
    \/ HandleBusErrorNotify
    \/ HandleBusErrorCheck
    \/ \E t \in Threads : ObserverReenters(t)

SpecObservers == Init /\ [][NextObservers]_vars


\* SpecExcept: the receive poll raises exceptions of the sampled texts; the caller
\* connects, disconnects and registers error observers.
NextExcept ==
    \/ CallConnect
    \/ CallDisconnect
    \/ add_error_callback
    \/ ResetSteps
    \/ DisconnectSteps({FALSE})
    \/ JoinExpires
    \/ WorkerLoop
    \/ WorkerRecv({"none"})
    \/ WorkerRecvRaises
    \/ WorkerExcept
    \/ HandleBusErrorCount
    \/ HandleBusErrorNotify
    \/ HandleBusErrorCheck

SpecExcept == Init /\ [][NextExcept]_vars

\* SpecSend: sending while the transport is connected, disconnected and reset, with
\* an idle receive worker. The backend's send returns or raises.
IdleOutcomes == {"none", "exc_other"}

NextSend ==
    \/ CallConnect
    \/ CallDisconnect
    \/ manual_reset_bus
    \/ send_message
    \/ BusSend
    \/ ResetSteps
    \/ DisconnectSteps({FALSE})
    \/ WorkerLoop
    \/ WorkerRecv(IdleOutcomes)
    \/ WorkerExcept

SpecSend == Init /\ [][NextSend]_vars


\* SpecCodec: the ServoProtocol functions applied to sampled arguments and byte
\* strings; the transport is not used.
NextCodec ==
    \/ EncodeWrite
    \/ EncodeWriteDual
    \/ EncodeRead
    \/ EncodeReadDual
    \/ EncodeSaveReset
    \/ EncodeOldWrite
    \/ EncodeOldRead
    \/ ParseBytes
    \/ ParseEncoded
    \/ CodecReturn

SpecCodec == Init /\ [][NextCodec]_vars


\* ------------------------------------------------------------- claims
\* the transport references a handle that the backend still holds open
TransportHandleOpen == bus # NoBus /\ bus \in openHandles

\* C1: at most one backend handle is open (opened and not yet shut down) at any
\* time, whatever sequence of connect, disconnect, manual and automatic resets ran.
C1_AtMostOneOpenHandle == Cardinality(openHandles) <= 1

\* C2: the receive queue never holds more messages than its capacity, whatever the
\* interleaving of the worker's enqueue and evict steps with get and clear.
C2_QueueWithinCapacity == Len(received_messages) <= QueueMaxsize

\* C2 witness: the queue is full again after an overflow (eviction and second put)
\* while the caller is in the middle of a get or a clear.
C2_FullAfterOverflow ==
    /\ Len(received_messages) = QueueMaxsize
    /\ frames > QueueMaxsize
    /\ pc["worker"] = "notify"
    /\ received_messages[Len(received_messages)] = w_msg
    /\ pc["caller"] \in {"g_loop", "r_clear"}

\* C3: when an automatic reset (run by the receive worker) returns after a
\* successful reconnect, the receive loop goes on: the stop signal is clear and the
\* transport is connected with a handle.
C3_ReceiveRunsAfterAutoReset == pc["worker"] = "r_done_ok" => LoopContinues

\* C4: in the automatic reset the reconnect comes after the disconnect: when the
\* worker is about to open the new handle, the connected flag is cleared and the
\* previous handle has been shut down.
C4_ReleasedBeforeReconnect ==
    (pc["worker"] = "c_open" /\ inReset["worker"]) =>
        (~is_connected /\ ~TransportHandleOpen)

\* the scenario of C5: auto-reset enabled throughout, no manual reset, every reconnect
\* succeeded, and all of the run within one window of its start
C5_Scenario == scenarioClean /\ clock - StartTime <= ErrorWindow

\* C5: in that scenario the threshold triggers no reset before the 10th fault and
\* exactly one reset once 11 faults have been counted, and the count is 0 when the
\* reset completes.
C5_ElevenFaultsOneReset ==
    C5_Scenario =>
        /\ faultEvents < max_errors_per_minute => autoResets = 0
        /\ faultEvents = max_errors_per_minute + 1 => autoResets = 1
        /\ autoResets <= 1
        /\ pc["worker"] = "r_done_ok" => bus_error_count = 0

\* C5 witness: the 11th fault of the window has been handled after the one reset.
C5_EleventhFaultHandled ==
    /\ C5_Scenario
    /\ faultEvents = max_errors_per_minute + 1
    /\ autoResets = 1
    /\ bus_error_count = 1
    /\ pc["worker"] = "loop"

\* C6: no fault triggers a reset while auto-recovery is disabled: the worker enters
\* the reset sequence only in a step that finds auto_reset_enabled set.
C6_NoResetWhileDisabled ==
    [][(inReset'["worker"] /\ ~inReset["worker"]) => auto_reset_enabled]_vars

\* C6 witness: the count has passed the threshold with auto-recovery disabled and
\* the worker is back in its loop without a reset.
C6_OverThresholdDisabled ==
    /\ ~auto_reset_enabled
    /\ bus_error_count > max_errors_per_minute
    /\ autoResets = 0
    /\ pc["worker"] = "loop"

\* C7: when the reconnect of a reset succeeds, the count is set to zero and the
\* recovery event is delivered to every registered error observer, in order.
C7_RecoveryOnSuccess ==
    [][\A t \in Threads :
        /\ (pc[t] = "r_ok" /\ pc'[t] # "r_ok") => bus_error_count' = 0
        /\ (pc[t] = "r_notify" /\ pc'[t] # "r_notify") =>
              lastNotify' = [kind |-> "recovery", to |-> error_callbacks]]_vars

\* C7 witness: a reset has succeeded from an elevated count and two registered
\* observers got the recovery event.
C7_RecoveryDelivered ==
    \E t \in Threads :
        /\ pc[t] = "r_done_ok"
        /\ r_count0[t] >= max_errors_per_minute
        /\ bus_error_count = 0
        /\ lastNotify.kind = "recovery"
        /\ Len(error_callbacks) = 2
        /\ lastNotify.to = error_callbacks

\* C8: when the reconnect of a reset fails, a failure event has been delivered to
\* every registered error observer.
C8_FailureEventOnFailure ==
    \A t \in Threads :
        pc[t] = "r_done_fail" =>
            \A o \in Range(error_callbacks) :
                lastNotify.kind = "failure" /\ o \in Range(lastNotify.to)

C10_DisconnectedAfterFailedReset ==
    \A t \in Threads :
        pc[t] = "r_done_fail" => (~is_connected /\ ~TransportHandleOpen)

\* C11: an observer that calls add/remove observer from inside its callback returns:
\* no thread waits for the registry lock while holding it itself.
C11_ReentrantObserverReturns ==
    \A t \in Threads : ~(pc[t] = "cb_reenter" /\ lock = t)

\* C12: for each received data frame every registered message observer is invoked
\* exactly once, in registration order, whether or not observers raise, and the
\* receive loop continues (observers that return or raise).
C12_EveryObserverOncePerFrame ==
    [][(pc["worker"] = "notify" /\ pc'["worker"] \notin {"notify", "cb_reenter"}) =>
          /\ pc'["worker"] = "loop"
          /\ lastNotify' = [kind |-> "message", to |-> message_callbacks]
          /\ \A o \in Observers :
                delivered'[o] = IF o \in Range(message_callbacks)
                                THEN Append(delivered[o], w_msg)
                                ELSE delivered[o]]_vars

\* C12 witness: two observers, registered in the order 2, 1, have both been passed
\* the same frame and the worker is back at the top of its loop.
C12_BothObserversGotFrame ==
    /\ message_callbacks = << 2, 1 >>
    /\ lastNotify = [kind |-> "message", to |-> << 2, 1 >>]
    /\ delivered[1] # << >>
    /\ delivered[1] = delivered[2]
    /\ pc["worker"] = "loop"

\* C13: every observer receives the data frames in the order the transport returned
\* them (frame ids grow in that order), also across queue overflow and eviction.
C13_DeliveredInTransportOrder ==
    \A o \in Observers :
        \A i, j \in 1..Len(delivered[o]) : i < j => delivered[o][i] < delivered[o][j]

\* C13 witness: an observer has received more frames than the queue holds, in order,
\* the last of them after an overflow evicted the oldest entries.
C13_OrderedAcrossOverflow ==
    \E o \in Observers :
        /\ Len(delivered[o]) = QueueMaxsize + 1
        /\ delivered[o][1] = 1
        /\ delivered[o][Len(delivered[o])] = QueueMaxsize + 1
        /\ Len(received_messages) = QueueMaxsize
        /\ Head(received_messages) > 1

LastFrames(n, k) == [i \in 1..k |-> n - k + i]

\* queue length after n frames with no consumer: full at QueueMaxsize, then each
\* overflow removes EvictBatch entries before the new one is added
UndrainedLen(n) ==
    IF n <= QueueMaxsize THEN n
    ELSE QueueMaxsize - EvictBatch + 1 + ((n - QueueMaxsize - 1) % EvictBatch)

\* C15: with no consumer, after n frames the queue holds the most recent
\* UndrainedLen(n) frames in arrival order (exactly QueueMaxsize of them after
\* QueueMaxsize + EvictBatch frames), and an overflow evicts at most EvictBatch.
C15_NewestKeptOnOverflow ==
    ~drained =>
        /\ w_removed <= EvictBatch
        /\ pc["worker"] \notin {"put", "evict", "retry"} =>
              received_messages = LastFrames(frames, UndrainedLen(frames))

\* C15 witness: QueueMaxsize + EvictBatch frames arrived with no consumer and the
\* queue is full with the most recent ones.
C15_FullWithNewest ==
    /\ ~drained
    /\ frames = QueueMaxsize + EvictBatch
    /\ Len(received_messages) = QueueMaxsize
    /\ Head(received_messages) = EvictBatch + 1
    /\ pc["worker"] = "loop"

\* C16 as stated: whenever disconnect shuts the handle down, the worker has exited.
C16_WorkerExitedBeforeShutdown ==
    [][\A t \in Threads :
        (pc[t] = "d_shut" /\ pc'[t] # "d_shut" /\ bus # NoBus) => ~WorkerAlive]_vars

\* C16 amended: the worker never polls a released handle: whenever it is about to
\* call recv, the transport holds a handle that is open.
C16_NoPollOnReleasedHandle == pc["worker"] = "recv" => TransportHandleOpen

\* C16 witness: the join gave up, the handle was shut down and the worker is still
\* alive, with the stop signal set.
C16_ReleasedWithWorkerAlive ==
    /\ shutdowns >= 1
    /\ bus = NoBus
    /\ ~is_connected
    /\ WorkerAlive
    /\ stop_receive
    /\ pc["caller"] = "idle"

\* C17: a disconnect step in the disconnected state changes nothing, and when a
\* disconnect() call completes after one successful connect, the handle's shutdown
\* has been called exactly once.
C17_DisconnectReleasesOnce ==
    [][\A t \in Threads :
        /\ (pc[t] \in {"d_stop", "d_join", "d_shut"} /\ pc'[t] # pc[t]
              /\ ~is_connected /\ bus = NoBus) =>
                UNCHANGED << bus, is_connected, stop_receive, openHandles, shutdowns,
                             received_messages >>
        /\ (pc[t] \in {"d_stop", "d_shut"}
              /\ pc'[t] \notin {"d_stop", "d_join", "d_shut"} /\ opened = 1) =>
                shutdowns' = 1]_vars

\* C18: at most one receive worker is alive at any time.
C18_AtMostOneWorker == liveWorkers <= 1

\* C18 witness: connect() ran to its end a second time while the worker started by
\* the first was alive, and one worker is alive.
C18_ConnectWhileWorkerAlive ==
    /\ opened = 2
    /\ bus = 2
    /\ shutdowns = 0
    /\ liveWorkers = 1
    /\ WorkerAlive
    /\ ~stop_receive
    /\ pc["caller"] = "idle"

\* C19: when stop_receive_thread ends, with the worker nowhere it could outlast
\* the grace period, no worker is alive.
C19_StoppedWhenStopReturns ==
    [][\A t \in Threads :
        (pc[t] \in {"d_stop", "d_join"} /\ pc'[t] \notin {"d_stop", "d_join"}
          /\ ~WorkerSlow) => ~WorkerAlive']_vars

\* C20: when the backend open fails, connect returns False to its caller (the reset
\* takes its failure branch), the connected flag is false and no worker is started.
C20_FailedOpenLeavesDisconnected ==
    [][\A t \in Threads :
        (pc[t] = "c_open" /\ pc'[t] # "c_open" /\ opened' = opened) =>
            /\ ~is_connected'
            /\ liveWorkers' = liveWorkers
            /\ t # "worker" => pc'["worker"] = pc["worker"]
            /\ pc'[t] = IF inReset[t] THEN "r_fail" ELSE Home(t)]_vars

\* C20 witness: after one successful connect, the connect() of a manual reset
\* failed: the failure branch is taken, not connected, no worker alive.
C20_ReconnectFailed ==
    /\ pc["caller"] = "r_fail"
    /\ opened = 1
    /\ ~is_connected
    /\ liveWorkers = 0
    /\ ~WorkerAlive

\* C21: send_message returns False without calling the backend when the transport
\* is not connected, returns False when the backend's send raises, never lets an
\* exception reach the caller, and calls the backend's send at most once per call.
\* A send that returns False leaves the transport state as it was.
C21_SendFailsQuietly ==
    [][ /\ lastSend'.ret \in {"none", "pending", "True", "False"}
        /\ lastSend'.sends <= 1
        /\ lastSend'.raised => lastSend'.ret = "False"
        /\ (lastSend'.ret = "True") => (lastSend'.sends = 1 /\ ~lastSend'.raised)
        /\ (pc["caller"] = "idle" /\ lastSend' # lastSend
                /\ (~is_connected \/ bus = NoBus))
           => (lastSend'.ret = "False" /\ lastSend'.sends = 0)
        /\ (lastSend' # lastSend /\ lastSend'.ret = "False")
           => UNCHANGED << bus, is_connected, stop_receive, received_messages,
                           bus_error_count, last_error_time, auto_reset_enabled,
                           openHandles, opened, liveWorkers, shutdowns,
                           error_callbacks, message_callbacks >>
      ]_vars

\* C21 witness: the backend's send raised once, send_message returned False and the
\* transport is still connected with its handle open.
C21_BackendSendRaised ==
    /\ lastSend.ret = "False"
    /\ lastSend.raised
    /\ lastSend.sends = 1
    /\ is_connected
    /\ TransportHandleOpen

\* C22: every encoder called with a device id and addresses in 0..255 and values in
\* 0..65535 returns a frame, with 5 payload bytes for WriteSingle, 8 for WriteDual,
\* 3 for ReadSingle, 4 for ReadDual and 5 for SaveAndReset.
C22_EncodersReturnFrames ==
    /\ codec.fn = "create_write_message"
        => (~codec.raised /\ Len(codec.payload) = 5)
    /\ codec.fn = "create_write_dual_message"
        => (~codec.raised /\ Len(codec.payload) = 8)
    /\ codec.fn = "create_read_message"
        => (~codec.raised /\ Len(codec.payload) = 3)
    /\ codec.fn = "create_read_dual_message"
        => (~codec.raised /\ Len(codec.payload) = 4)
    /\ codec.fn = "create_save_reset_message"
        => (~codec.raised /\ Len(codec.payload) = 5)

\* C23: the payload of create_write_message with its tag replaced by 0x76 decodes
\* to a single-register response with the same device id, address and value; the
\* unmodified payload of a read or write command decodes to None.
C23_WriteRoundTrip ==
    /\ (codec.fn = "create_write_message" /\ codec.parsed /\ codec.retagged)
        => /\ codec.resp.type = "single_response"
           /\ codec.resp.servo_id = codec.args[1]
           /\ codec.resp.address = codec.args[2]
           /\ codec.resp.value = codec.args[3]
    /\ (codec.fn \in {"create_write_message", "create_write_dual_message",
                      "create_read_message", "create_read_dual_message"}
            /\ codec.parsed /\ ~codec.retagged)
        => codec.resp.type = "None"

\* C23 witness: a write of 1500 was encoded, retagged and decoded back to 1500.
C23_RoundTripOf1500 ==
    /\ codec.fn = "create_write_message"
    /\ codec.args = << 48, 50, 1500 >>
    /\ codec.parsed
    /\ codec.retagged
    /\ codec.resp.value = 1500

\* C24: parse_response_message never raises: for a byte string of length 0..8 it
\* returns a response or None, and None whenever the string is shorter than 5 bytes
\* with tag 0x76, shorter than 8 bytes with tag 0x56, or has any other tag.
C24_ParseNeverRaises ==
    codec.fn = "parse_response_message" =>
        LET data == codec.args
        IN  /\ codec.resp.type \in {"None", "single_response", "dual_response"}
            /\ (\/ data = << >>
                \/ data # << >> /\ data[1] = 118 /\ Len(data) < 5
                \/ data # << >> /\ data[1] = 86 /\ Len(data) < 8
                \/ data # << >> /\ data[1] \notin {118, 86})
               => codec.resp.type = "None"

\* C24 witness: a 7-byte string with tag 0x56 was parsed to None.
C24_ShortDualIsNone ==
    /\ codec.fn = "parse_response_message"
    /\ Len(codec.args) = 7
    /\ codec.args[1] = 86
    /\ codec.resp.type = "None"

\* C25: create_write_message(id, addr, value) returns the payload
\* [0x77, id, addr, value mod 256, (value div 256) mod 256]; id 48, addr 0x32,
\* value 30 gives [0x77, 0x30, 0x32, 0x1E, 0x00].
C25_WritePayloadBytes ==
    codec.fn = "create_write_message" =>
        /\ ~codec.raised
        /\ codec.payload = << 119, codec.args[1], codec.args[2],
                              codec.args[3] % 256, (codec.args[3] \div 256) % 256 >>
        /\ codec.args = << 48, 50, 30 >> => codec.payload = << 119, 48, 50, 30, 0 >>

\* C25 witness: a value above 255 was encoded with a non-zero high byte.
C25_TwoByteValueEncoded ==
    /\ codec.fn = "create_write_message"
    /\ codec.args = << 48, 50, 1500 >>
    /\ codec.payload = << 119, 48, 50, 220, 5 >>

\* C26: [0x76, id, addr, lo, hi] decodes to device id, address addr and value
\* lo + 256*hi; [0x56, id, a, alo, ahi, b, blo, bhi] decodes to a dual response with
\* addresses a, b and values alo + 256*ahi, blo + 256*bhi;
\* [0x76, 0x30, 0x32, 0xDC, 0x05] is device 48, address 0x32, value 1500.
C26_ResponseFields ==
    codec.fn = "parse_response_message" =>
        LET data == codec.args
            resp == codec.resp
        IN  /\ (Len(data) = 5 /\ data[1] = 118)
                => /\ resp.type = "single_response"
                   /\ resp.servo_id = data[2]
                   /\ resp.address = data[3]
                   /\ resp.value = data[4] + 256 * data[5]
            /\ (Len(data) = 8 /\ data[1] = 86)
                => /\ resp.type = "dual_response"
                   /\ resp.servo_id = data[2]
                   /\ resp.address_a = data[3]
                   /\ resp.value_a = data[4] + 256 * data[5]
                   /\ resp.address_b = data[6]
                   /\ resp.value_b = data[7] + 256 * data[8]
            /\ data = << 118, 48, 50, 220, 5 >>
                => (resp.servo_id = 48 /\ resp.address = 50 /\ resp.value = 1500)

\* C26 witness: a dual response with two different values was decoded.
C26_DualResponseDecoded ==
    /\ codec.fn = "parse_response_message"
    /\ codec.args = << 86, 48, 50, 220, 5, 48, 5, 220 >>
    /\ codec.resp.type = "dual_response"
    /\ codec.resp.value_a = 1500
    /\ codec.resp.value_b = 56325

\* C27 as stated: the final byte of every legacy frame is the sum of all preceding
\* payload bytes, the 0x96 header included, modulo 256.
C27_ChecksumCoversHeader ==
    LET p == codec.payload
    IN  /\ codec.fn = "create_old_format_write"
            => /\ ~codec.raised
               /\ p[7] = (p[1] + p[2] + p[3] + p[4] + p[5] + p[6]) % 256
        /\ codec.fn = "create_old_format_read"
            => /\ ~codec.raised
               /\ p[5] = (p[1] + p[2] + p[3] + p[4]) % 256

\* C27 amended: the final byte of every legacy frame is the sum, modulo 256, of the
\* bytes between the header and the checksum (device id, address, length byte and
\* the data bytes of a write); the 0x96 header is the first byte and is not summed.
C27_ChecksumAfterHeader ==
    LET p == codec.payload
    IN  /\ codec.fn = "create_old_format_write"
            => /\ ~codec.raised
               /\ Len(p) = 7
               /\ p[1] = 150
               /\ p[7] = (p[2] + p[3] + p[4] + p[5] + p[6]) % 256
        /\ codec.fn = "create_old_format_read"
            => /\ ~codec.raised
               /\ Len(p) = 5
               /\ p[1] = 150
               /\ p[5] = (p[2] + p[3] + p[4]) % 256

\* C27 witness: a legacy write whose byte sum exceeds 255 was built.
C27_LegacyWriteWrapped ==
    /\ codec.fn = "create_old_format_write"
    /\ codec.args = << 255, 255, 65535 >>
    /\ ~codec.raised
    /\ codec.payload[7] = 254

\* the steps of a complete reset sequence called by manual_reset_bus
ManualResetStages ==
    << "manual_reset_bus", "drain", "disconnect", "settle", "reconnect" >>

\* C28: manual_reset_bus() executes the full reset sequence (drain, disconnect,
\* settle, reconnect), in this order, whatever the fault count is and whether or
\* not auto-recovery is enabled.
C28_ManualResetRunsFullSequence ==
    LET done == r_stages["caller"]
    IN  done # << >> =>
            /\ Len(done) <= Len(ManualResetStages)
            /\ done = SubSeq(ManualResetStages, 1, Len(done))
            /\ pc["caller"] \in {"idle", "r_ok", "r_fail", "r_notify",
                                 "r_done_ok", "r_done_fail", "cb_reenter"}
                => done = ManualResetStages

\* C28 witness: a manual reset called with a zero fault count and auto-recovery
\* disabled ran all four steps and reconnected.
C28_ManualResetWhileDisabled ==
    /\ pc["caller"] = "r_done_ok"
    /\ r_stages["caller"] = ManualResetStages
    /\ r_count0["caller"] = 0
    /\ ~auto_reset_enabled

\* C29: a fault arriving more than 60 time units after the previous fault first
\* resets the count to zero, so the count after it is 1; a fault within 60 time
\* units of the previous fault increments the count by exactly one.
C29_WindowResetThenCount ==
    [][ faultEvents' = faultEvents + 1 =>
            /\ last_error_time' = clock
            /\ IF clock - last_error_time > 60
               THEN bus_error_count' = 1
               ELSE bus_error_count' = bus_error_count + 1
      ]_vars

\* C29 witness: after several faults and a pause of more than 60 time units a further
\* fault left the count at 1, with no reset in between.
C29_CountRestartedAfterPause ==
    /\ pc["worker"] = "h_notify"
    /\ faultEvents >= 3
    /\ bus_error_count = 1
    /\ autoResets = 0
    /\ Len(faultLog) = faultEvents
    /\ clock - faultLog[faultEvents - 1] > 60

\* the faults logged since the last successful reset that are at most 60 time
\* units old at time now
RecentFaults(now) ==
    Cardinality({ i \in 1..Len(faultLog) : now - faultLog[i] <= 60 })

\* C30: the fault count never includes a fault older than 60 time units, so an
\* automatic reset is triggered only when at least 10 faults occurred within the
\* preceding 60 time units.
C30_ResetOnlyOnTenRecentFaults ==
    [][ autoResets' = autoResets + 1 => RecentFaults(clock) >= 10 ]_vars

\* C31: an exception raised by the receive poll while connected whose text
\* indicates heavy traffic, warning state, bus-off or error-counter overflow is
\* forwarded to the fault monitor (count incremented, error observers notified); any
\* other exception leaves the fault count unchanged; in both cases the receive loop
\* keeps running: the worker does not leave its loop unless the caller disconnected.
C31_ExceptionsClassifiedLoopGoesOn ==
    [][ /\ (pc["worker"] \in {"exc_bus", "exc_other"} /\ pc'["worker"] # pc["worker"]
                /\ is_connected)
           => IF \/ \E word \in {"heavy", "warning", "bus-off"} :
                        Contains(lastRaised, << word >>)
                 \/ Contains(lastRaised, << "error", "counter" >>)
              THEN pc'["worker"] = "h_count"
              ELSE pc'["worker"] = "loop" /\ bus_error_count' = bus_error_count
        /\ (pc["worker"] = "h_count" /\ pc'["worker"] # "h_count")
           => (bus_error_count' \in {1, bus_error_count + 1} /\ pc'["worker"] = "h_notify")
        /\ (pc["worker"] = "h_notify" /\ pc'["worker"] = "h_check")
           => lastNotify' = [kind |-> "fault", to |-> error_callbacks]
        /\ (pc["worker"] = "loop" /\ pc'["worker"] = "dead")
           => ~(pc["caller"] = "idle" /\ shutdowns = 0 /\ is_connected)
      ]_vars

\* C32: create_save_reset_message(id) returns the frame of a WriteSingle to address
\* 0x70 with value 0xFFFF, payload [0x77, id, 0x70, 0xFF, 0xFF], for every device id
\* in 0..255.
C32_SaveResetPayload ==
    codec.fn = "create_save_reset_message" =>
        /\ ~codec.raised
        /\ codec.payload = << 119, codec.args[1], 112, 255, 255 >>
        /\ codec.payload = create_write_message(codec.args[1], 112, 65535).payload

\* C32 witness: the save-and-reset frame of device 255 was built.
C32_SaveResetOf255 ==
    /\ codec.fn = "create_save_reset_message"
    /\ codec.args = << 255 >>
    /\ codec.payload = << 119, 255, 112, 255, 255 >>

\* C33: on every fault the count is incremented, the last-fault time is stamped, and
\* each registered error observer is invoked exactly once with an event carrying the
\* post-increment count; observers that raise do not keep the remaining observers
\* from being invoked nor the threshold check from running.
C33_FaultCountedStampedNotified ==
    [][ /\ (pc["worker"] = "h_count" /\ pc'["worker"] # "h_count")
           => /\ bus_error_count' \in {1, bus_error_count + 1}
              /\ last_error_time' = clock
              /\ lastFault'.count = bus_error_count'
        /\ (pc["worker"] = "h_notify" /\ pc'["worker"] \notin {"h_notify", "cb_reenter"})
           => /\ lastNotify' = [kind |-> "fault", to |-> error_callbacks]
              /\ Cardinality(Range(error_callbacks)) = Len(error_callbacks)
              /\ error_callbacks # << >> => lastFault'.seq = lastFault.count
              /\ pc'["worker"] = "h_check"
      ]_vars

\* C34: get_received_messages(n) returns at most n messages in the order in which
\* they were enqueued, removes exactly the returned messages from the queue and
\* leaves the remaining ones in their order; on an empty queue it returns an empty
\* list. (Frame ids grow in the order of enqueueing.)
C34_GetReturnsOldestInOrder ==
    [][ /\ messages' # messages /\ messages' # << >>
           => /\ received_messages # << >>
              /\ messages' = Append(messages, received_messages[1])
              /\ received_messages' = SubSeq(received_messages, 2, Len(received_messages))
        /\ Len(messages') <= max_count'
        /\ \A i, j \in 1..Len(messages') : i < j => messages'[i] < messages'[j]
        /\ (pc["caller"] = "g_loop" /\ pc'["caller"] = "idle")
           => /\ received_messages' = received_messages
              /\ messages' = messages
              /\ Len(messages) < max_count => received_messages = << >>
        /\ (pc["caller"] = "g_loop" /\ received_messages = << >> /\ messages = << >>
                /\ pc'["caller"] # "g_loop")
           => (pc'["caller"] = "idle" /\ messages' = << >>)
      ]_vars

\* C34 witness: a get of at most two messages returned the two oldest frames in
\* order and left the third frame in the queue.
C34_TwoOldestReturned ==
    /\ pc["caller"] = "idle"
    /\ max_count = 2
    /\ messages = << 1, 2 >>
    /\ received_messages = << 3 >>

\* the registry a registry call worked on, as it is now
RegistryOf(call) ==
    IF call.registry = "message" THEN message_callbacks ELSE error_callbacks

\* C35 as stated: adding an observer that is already registered leaves the registry
\* unchanged, removing an observer that is not registered is a no-op, and add
\* followed by remove of the same observer restores the registry from before the add.
C35_AddRemoveRestores ==
    [][ lastReg' # lastReg =>
          LET now == RegistryOf(lastReg)'
              before == lastReg'.before
          IN  /\ (lastReg'.op = "add" /\ lastReg'.callback \in Range(before))
                 => now = before
              /\ (lastReg'.op = "remove" /\ lastReg'.callback \notin Range(before))
                 => now = before
              /\ (lastReg.op = "add" /\ lastReg'.op = "remove"
                      /\ lastReg'.registry = lastReg.registry
                      /\ lastReg'.callback = lastReg.callback)
                 => now = lastReg.before
      ]_vars

\* C35 amended: no observer is in a registry twice (it is invoked once per message);
\* adding a registered observer and removing an unregistered one change nothing;
\* adding an unregistered observer appends it and removing a registered one deletes
\* it, keeping the order of the others; add followed by remove of the same observer
\* gives the registry from before the add without that observer, which is the
\* previous registry exactly when the observer was not registered before.
C35_RegistriesAreSetLike ==
    [][ /\ Cardinality(Range(message_callbacks')) = Len(message_callbacks')
        /\ Cardinality(Range(error_callbacks')) = Len(error_callbacks')
        /\ lastReg' # lastReg =>
             LET now == RegistryOf(lastReg)'
                 before == lastReg'.before
                 o == lastReg'.callback
             IN  /\ before = RegistryOf(lastReg')
                 /\ (lastReg'.op = "add" /\ o \in Range(before)) => now = before
                 /\ (lastReg'.op = "add" /\ o \notin Range(before))
                    => now = Append(before, o)
                 /\ (lastReg'.op = "remove" /\ o \notin Range(before)) => now = before
                 /\ (lastReg'.op = "remove" /\ o \in Range(before))
                    => now = SelectSeq(before, LAMBDA x : x # o)
                 /\ (lastReg.op = "add" /\ lastReg'.op = "remove"
                         /\ lastReg'.registry = lastReg.registry /\ o = lastReg.callback)
                    => /\ now = SelectSeq(lastReg.before, LAMBDA x : x # o)
                       /\ o \notin Range(lastReg.before) => now = lastReg.before
      ]_vars

\* C35 witness: observer 1 was added to the message registry << 2 >> and removed
\* again, which restored << 2 >>.
C35_AddedThenRemoved ==
    /\ lastReg = [n |-> 3, op |-> "remove", registry |-> "message", callback |-> 1,
                  before |-> << 2, 1 >>]
    /\ message_callbacks = << 2 >>

\* C36: every data frame the worker receives is passed to the message observers
\* whether or not it could be enqueued: from the first put_nowait through eviction
\* and the second put_nowait the worker keeps the frame and goes on to the
\* notification, where every registered observer gets that frame whatever the queue
\* holds (observers that return or raise).
C36_DeliveryIgnoresQueue ==
    [][ /\ (pc["worker"] = "recv" /\ pc'["worker"] = "put") => w_msg' = frames'
        /\ pc["worker"] \in {"put", "evict", "retry"}
           => /\ pc'["worker"] \in {"put", "evict", "retry", "notify"}
              /\ w_msg' = w_msg
        /\ (pc["worker"] = "notify" /\ pc'["worker"] \notin {"notify", "cb_reenter"})
           => \A o \in Range(message_callbacks) :
                 /\ delivered'[o] # << >>
                 /\ delivered'[o][Len(delivered'[o])] = w_msg
                 /\ Len(delivered'[o]) = Len(delivered[o]) + 1
      ]_vars

\* C36 witness: the third frame found the queue full; the observer registered from
\* the start has got all three frames while the queue holds only the last two.
C36_DeliveredAfterOverflow ==
    /\ pc["worker"] = "loop"
    /\ delivered[1] = << 1, 2, 3 >>
    /\ received_messages = << 2, 3 >>
    /\ ~drained

\* C37: whenever disconnect() returns, on a caller thread or on the receive worker,
\* the connected flag is false and the transport holds no backend handle.
\* disconnect returns either from stop_receive_thread (the join raised) or after the
\* shutdown step.
C37_DisconnectLeavesNothing ==
    [][ \A t \in Threads :
           (pc[t] \in {"d_stop", "d_shut"} /\ pc'[t] = AfterDisconnect(t))
           => (~is_connected' /\ bus' = NoBus)
      ]_vars

\* C38: at most one reset sequence executes at a time: the caller thread (manual
\* reset) and the receive worker (automatic reset) are never both inside
\* _auto_reset_bus.
C38_OneResetAtATime == ~(inReset["caller"] /\ inReset["worker"])

\* C39: when a manual reset completes, the receive queue holds no message that was
\* received before the reset's disconnect step (r_frames0 is the number of frames
\* received when the drain ended and disconnect began).
C39_NoStaleFrameAfterReset ==
    (inReset["caller"] /\ pc["caller"] \in {"r_done_ok", "r_done_fail"})
    => \A i \in 1..Len(received_messages) : received_messages[i] > r_frames0

====
